---- MODULE Spec2Model ----
(***************************************************************************)
(* A model of WD_models (src/__init__.py): the initial-final mass relation *)
(* IFMR, the main-sequence lifetime MS_age, the cooling-track aggregator   *)
(* read_cooling_tracks, the atmosphere mapping interp_atm and load_model.  *)
(*                                                                         *)
(* Numbers.  A finite float is modelled by the exact rational it is        *)
(* written as, a pair <<n, d>> in lowest terms with d > 0; a float that    *)
(* may be nan, inf or -inf is a record [kind, v].  numpy arrays are        *)
(* sequences, boolean masks are sequences of booleans.                     *)
(*                                                                         *)
(* Calls.  Every public function is one action: it draws its arguments     *)
(* from bounded sets, runs the whole function body and leaves the outcome  *)
(* (the exception raised, or the returned value and the warnings emitted)  *)
(* in `out`.  Return takes the program back to the idle state.             *)
(***************************************************************************)
EXTENDS Integers, Sequences, FiniteSets

VARIABLES
    np_legacy_index,  \* the installed numpy reads a[[mask]] as a[(mask,)] (numpy < 1.23)
    op,               \* the function that ran last: "idle", "IFMR", "MS_age", ...
    args,             \* its arguments
    out               \* its outcome

vars == <<np_legacy_index, op, args, out>>

-----------------------------------------------------------------------------
(* Bounds of the model *)

\* the longest m_WD array passed to IFMR
MaxLen == 2

\* the rows of the longest cooling-track file but those of MESA, which hold
\* four times as many
MaxRows == 11

\* the points of the longest track the cooling-rate computation is given
MaxPoints == 4

\* the longest arrays x, y, z the interpolation builders are given
MaxXY == 4

\* the rows of a cooling-track file whose rows differ from one another
MaxTrack == 4

-----------------------------------------------------------------------------
(* Exact rational arithmetic *)

Abs(x) == IF x < 0 THEN -x ELSE x

RECURSIVE Gcd(_, _)
Gcd(a, b) == IF b = 0 THEN a ELSE Gcd(b, a % b)

\* n/d in lowest terms, d > 0
Rat(n, d) == LET g == Gcd(Abs(n), d) IN <<n \div g, d \div g>>

\* a decimal literal: Dec(5741, 10000) is 0.5741
Dec(n, d) == Rat(n, d)

RatSub(a, b) ==
    LET g  == Gcd(a[2], b[2])
        l1 == b[2] \div g
        l2 == a[2] \div g
    IN  Rat(a[1] * l1 - b[1] * l2, a[2] * l1)

RatAdd(a, b) == RatSub(a, <<-b[1], b[2]>>)

RatMul(a, b) ==
    LET g1 == Gcd(Abs(a[1]), b[2])
        g2 == Gcd(Abs(b[1]), a[2])
    IN  IF a[1] = 0 \/ b[1] = 0 THEN <<0, 1>>
        ELSE <<(a[1] \div g1) * (b[1] \div g2), (a[2] \div g2) * (b[2] \div g1)>>

\* a / b for b > 0
RatDiv(a, b) == RatMul(a, <<b[2], b[1]>>)

\* n1/d1 < n2/d2 by Euclid's algorithm: no product is formed
RECURSIVE FracLt(_, _, _, _)
FracLt(n1, d1, n2, d2) ==
    LET q1 == n1 \div d1
        q2 == n2 \div d2
        r1 == n1 % d1
        r2 == n2 % d2
    IN  IF q1 # q2 THEN q1 < q2
        ELSE IF r2 = 0 THEN FALSE
        ELSE IF r1 = 0 THEN TRUE
        ELSE FracLt(d2, r2, d1, r1)

RatLt(a, b) == FracLt(a[1], a[2], b[1], b[2])
RatGt(a, b) == RatLt(b, a)
RatGe(a, b) == ~RatLt(a, b)
RatLe(a, b) == ~RatLt(b, a)

-----------------------------------------------------------------------------
(* numpy array operations used by IFMR *)

\* arr < c, arr > c, arr >= c: element-wise comparison with a scalar
ArrLt(arr, c) == [i \in DOMAIN arr |-> RatLt(arr[i], c)]
ArrGt(arr, c) == [i \in DOMAIN arr |-> RatGt(arr[i], c)]
ArrGe(arr, c) == [i \in DOMAIN arr |-> RatGe(arr[i], c)]

\* a < b for two arrays of one length
ArrLtArr(a, b) == [i \in DOMAIN a |-> RatLt(a[i], b[i])]

\* mask.any()
AnyTrue(mask) == \E i \in DOMAIN mask : mask[i]

\* arr[mask] = v: a scalar written to every selected element
SetMasked(arr, mask, v) == [i \in DOMAIN arr |-> IF mask[i] THEN v ELSE arr[i]]

\* the number of selected elements among the first i
CountTrue(mask, i) == Cardinality({j \in 1..i : mask[j]})

\* the selected elements among arr[lo..hi], in order
RECURSIVE Take(_, _, _, _)
Take(arr, mask, lo, hi) ==
    IF lo > hi THEN <<>>
    ELSE IF lo = hi THEN (IF mask[lo] THEN <<arr[lo]>> ELSE <<>>)
    ELSE Take(arr, mask, lo, (lo + hi) \div 2)
            \o Take(arr, mask, (lo + hi) \div 2 + 1, hi)

\* arr[mask]: the selected elements, in order
Compress(arr, mask) == Take(arr, mask, 1, Len(arr))

\* arr[mask] = vals: the k-th selected element receives vals[k]
SetMaskedArr(arr, mask, vals) ==
    [i \in DOMAIN arr |-> IF mask[i] THEN vals[CountTrue(mask, i)] ELSE arr[i]]

-----------------------------------------------------------------------------
(* Outcomes of a call *)

\* an array held as the sequence of its elements, each computed once
AsArray(f) == f \o <<>>

\* what interp_atm has made when it ends: table is Atm_color after line 473,
\* operands the expression of z, points the rows (Teff, logg, z) that
\* griddata and the interpolator are built on (logteff is log10 of Teff)
NoAtm == [table |-> <<>>, operands |-> <<>>, points |-> <<>>]

\* what load_model has made when it ends: the messages printed, the last
\* stage completed, the track points with their Mag and color, and the
\* array 'cool_rate^-1'.  Where load_model is followed stage by stage, also
\* the two mappings of interp_atm, logg_func ("None" or "interpolator") and
\* the rows read_cooling_tracks has returned.
NoBundle == [printed |-> <<>>, stage |-> "", points |-> <<>>, rate_inv |-> <<>>,
             atm |-> <<>>, logg_func |-> "", rows |-> <<>>]

\* one interpolation handed to the library: whether it was built, the rows
\* (x, y, z) it was built on, its method and its rescale setting
NoBuild == [built |-> FALSE, points |-> <<>>, method |-> "", rescale |-> FALSE]

\* one interpolation the library has built
Build(points, method, rescale) ==
    [built |-> TRUE, points |-> points, method |-> method, rescale |-> rescale]

\* what interp_xy_z, interp_xy_z_func and interp_HR_to_para have made when
\* they end: the mask selected, the dense grid and the query function
NoInterp == [selected |-> <<>>, grid |-> NoBuild, func |-> NoBuild]

\* an exception e escapes, after the warnings w
Raise(e, w) ==
    [exc |-> e, value |-> <<>>, age |-> <<>>, rows |-> <<>>, shape |-> <<>>,
     warnings |-> w, atm |-> NoAtm, bundle |-> NoBundle,
     interp |-> NoInterp]
\* the 1-D array v of masses is returned, after the warnings w
Done(v, w) ==
    [exc |-> "none", value |-> AsArray(v), age |-> <<>>, rows |-> <<>>,
     shape |-> <<Len(v)>>,
     warnings |-> w, atm |-> NoAtm, bundle |-> NoBundle,
     interp |-> NoInterp]
\* the array a of lifetimes, of the given shape, is returned after the warnings w
DoneAge(a, shape, w) ==
    [exc |-> "none", value |-> <<>>, age |-> a, rows |-> <<>>, shape |-> shape,
     warnings |-> w, atm |-> NoAtm, bundle |-> NoBundle,
     interp |-> NoInterp]
\* the six arrays, one record per element, are returned after the warnings w
DoneRows(rows, w) ==
    [exc |-> "none", value |-> <<>>, age |-> <<>>, rows |-> rows,
     shape |-> <<Len(rows)>>, warnings |-> w, atm |-> NoAtm, bundle |-> NoBundle,
     interp |-> NoInterp]

-----------------------------------------------------------------------------
(* Library behaviour IFMR relies on *)

\* A fill_value argument: a finite number, nan, inf, a string, None or a list.
NumFill(v)  == [kind |-> "num",  v |-> v,      s |-> "",  items |-> <<>>]
NanFill     == [kind |-> "nan",  v |-> <<0,1>>, s |-> "", items |-> <<>>]
InfFill     == [kind |-> "inf",  v |-> <<0,1>>, s |-> "", items |-> <<>>]
StrFill(s)  == [kind |-> "str",  v |-> <<0,1>>, s |-> s,  items |-> <<>>]
NoneFill    == [kind |-> "none", v |-> <<0,1>>, s |-> "", items |-> <<>>]
ListFill(l) == [kind |-> "list", v |-> <<0,1>>, s |-> "", items |-> l]

\* np.isfinite(x) for a scalar x: a ufunc on floats, which raises TypeError on
\* a str and on None ("ufunc 'isfinite' not supported for the input types").
np_isfinite(x) ==
    CASE x.kind = "num"            -> "True"
      [] x.kind \in {"nan", "inf"} -> "False"
      [] OTHER                     -> "TypeError"

\* scipy.interpolate.interp1d(x, y, fill_value=fv, bounds_error=False), the
\* construction.  fv is "extrapolate", a 2-tuple (below, above), or anything
\* else, which is one array-like used on both sides and has to broadcast to
\* the shape of y without its interpolation axis: for 1-D y only a single
\* element does, and a list of two raises ValueError.  x and y of different
\* lengths raise ValueError.
interp1d_init(x, y, fv) ==
    IF Len(x) # Len(y) THEN "ValueError"
    ELSE IF fv.kind = "extrapolate" THEN "none"
    ELSE IF fv.kind = "tuple" /\ Len(fv.items) = 2 THEN "none"
    ELSE IF Len(fv.items) = 1 THEN "none"
    ELSE "ValueError"

\* the value below and above the range of x of a constructed interp1d
interp1d_below(fv) == fv.items[1]
interp1d_above(fv) == fv.items[Len(fv.items)]

\* the linear segment interp1d uses for v: np.searchsorted(x, v) clipped to
\* 1 .. len(x)-1 (0-based), so the first and the last segment extend outwards
interp1d_segment(x, v) ==
    LET cnt == Cardinality({j \in DOMAIN x : RatLt(x[j], v)})
    IN  IF cnt < 1 THEN 1 ELSE IF cnt > Len(x) - 1 THEN Len(x) - 1 ELSE cnt

interp1d_linear(x, y, v) ==
    LET lo    == interp1d_segment(x, v)
        hi    == lo + 1
        slope == RatDiv(RatSub(y[hi], y[lo]), RatSub(x[hi], x[lo]))
    IN  RatAdd(RatMul(slope, RatSub(v, x[lo])), y[lo])

\* interp1d(x, y, fill_value=fv, bounds_error=False)(x_new), once constructed
interp1d_call(x, y, fv, x_new) ==
    [i \in DOMAIN x_new |->
        IF fv.kind # "extrapolate" /\ RatLt(x_new[i], x[1])
            THEN interp1d_below(fv)
        ELSE IF fv.kind # "extrapolate" /\ RatGt(x_new[i], x[Len(x)])
            THEN interp1d_above(fv)
        ELSE interp1d_linear(x, y, x_new[i])]

-----------------------------------------------------------------------------
(* IFMR, src/__init__.py 71-293 *)

\* m_WD = np.asarray(m_WD).reshape(-1): the elements in row-major order, as a
\* 1-D array.  An input is [shape |-> <<...>>, data |-> the elements].
\* a variant that keeps np.asarray(m_WD).reshape(-1)[:1], the first element only
Reshape1DFirst(m_WD_in) == <<m_WD_in.data[1]>>

Reshape1D(m_WD_in) == m_WD_in.data

\* fill_value == 'extrapolate'
IsExtrapolate(fill_value) == fill_value.kind = "str" /\ fill_value.s = "extrapolate"

\* lines 106-118: fill_value_low and fill_value_high, or the exception raised
FillValueCheck(fill_value) ==
    IF fill_value.kind = "list"
    THEN IF Len(fill_value.items) # 2
         THEN [exc |-> "ValueError", set |-> FALSE, low |-> <<0,1>>, high |-> <<0,1>>]
         ELSE [exc |-> "none", set |-> TRUE,
               low |-> fill_value.items[1], high |-> fill_value.items[2]]
    ELSE IF np_isfinite(fill_value) = "TypeError"
    THEN [exc |-> "TypeError", set |-> FALSE, low |-> <<0,1>>, high |-> <<0,1>>]
    ELSE IF np_isfinite(fill_value) = "True"
    THEN [exc |-> "none", set |-> TRUE, low |-> fill_value.v, high |-> fill_value.v]
    ELSE IF IsExtrapolate(fill_value)
    THEN [exc |-> "none", set |-> FALSE, low |-> <<0,1>>, high |-> <<0,1>>]
    ELSE [exc |-> "ValueError", set |-> FALSE, low |-> <<0,1>>, high |-> <<0,1>>]

\* the two warnings.warn calls that open every built-in relation
DomainWarnings(m_WD, lo, hi) ==
    (IF AnyTrue(ArrLt(m_WD, lo)) THEN <<"below">> ELSE <<>>)
    \o (IF AnyTrue(ArrGt(m_WD, hi)) THEN <<"above">> ELSE <<>>)

\* (m_WD - a) / b
Linear(m_WD, a, b) == [i \in DOMAIN m_WD |-> RatDiv(RatSub(m_WD[i], a), b)]

\* if fill_value != 'extrapolate': m_MS[m_WD < lo] = low; m_MS[m_WD > hi] = high
FillOutside(m_MS, m_WD, lo, hi, fill_value, fv) ==
    IF ~IsExtrapolate(fill_value)
    THEN SetMasked(SetMasked(m_MS, ArrLt(m_WD, lo), fv.low), ArrGt(m_WD, hi), fv.high)
    ELSE m_MS

\* lines 121-133
Catalan08(m_WD, fill_value, fv) ==
    LET lo == Dec(5741, 10000)  hi == Dec(11195, 10000)
        m_MS == Linear(m_WD, Dec(384, 1000), Dec(117, 1000))
    IN  Done(FillOutside(m_MS, m_WD, lo, hi, fill_value, fv), DomainWarnings(m_WD, lo, hi))

\* m_MS[mask] = second[mask] for two arrays of one length
Where(mask, second, first) == [i \in DOMAIN first |-> IF mask[i] THEN second[i] ELSE first[i]]

\* lines 136-150
Catalan08b(m_WD, fill_value, fv) ==
    LET lo == Dec(573, 1000)  hi == Dec(11948, 10000)
        mask == ArrGe(m_WD, Dec(68890243, 100000000))
        m_MS == Where(mask, Linear(m_WD, Dec(318, 1000), Dec(137, 1000)),
                            Linear(m_WD, Dec(429, 1000), Dec(96, 1000)))
    IN  Done(FillOutside(m_MS, m_WD, lo, hi, fill_value, fv), DomainWarnings(m_WD, lo, hi))

\* lines 153-165
Salaris09(m_WD, fill_value, fv) ==
    LET lo == Dec(6088, 10000)  hi == Dec(118, 100)
        m_MS == Linear(m_WD, Dec(466, 1000), Dec(84, 1000))
    IN  Done(FillOutside(m_MS, m_WD, lo, hi, fill_value, fv), DomainWarnings(m_WD, lo, hi))

\* lines 168-182
Salaris09b(m_WD, fill_value, fv) ==
    LET lo == Dec(5588, 10000)  hi == Dec(10785, 10000)
        mask == ArrGe(m_WD, Dec(867, 1000))
        m_MS == Where(mask, Linear(m_WD, Dec(679, 1000), Dec(47, 1000)),
                            Linear(m_WD, Dec(331, 1000), Dec(134, 1000)))
    IN  Done(FillOutside(m_MS, m_WD, lo, hi, fill_value, fv), DomainWarnings(m_WD, lo, hi))

\* lines 185-197
Williams09(m_WD, fill_value, fv) ==
    LET lo == Dec(50025, 100000)  hi == Dec(1371, 1000)
        m_MS == Linear(m_WD, Dec(339, 1000), Dec(129, 1000))
    IN  Done(FillOutside(m_MS, m_WD, lo, hi, fill_value, fv), DomainWarnings(m_WD, lo, hi))

\* lines 200-212
Kalirai09(m_WD, fill_value, fv) ==
    LET lo == Dec(5741, 10000)  hi == Dec(11195, 10000)
        m_MS == Linear(m_WD, Dec(428, 1000), Dec(109, 1000))
    IN  Done(FillOutside(m_MS, m_WD, lo, hi, fill_value, fv), DomainWarnings(m_WD, lo, hi))

\* lines 215-229
Kalirai09b(m_WD, fill_value, fv) ==
    LET lo == Dec(5741, 10000)  hi == Dec(11195, 10000)
        m_MS == Linear(m_WD, Dec(463, 1000), Dec(101, 1000))
    IN  Done(FillOutside(m_MS, m_WD, lo, hi, fill_value, fv), DomainWarnings(m_WD, lo, hi))

\* the fill_value argument IFMR hands to interp1d: the string, or the list
\* [fill_value_low, fill_value_high]
Interp1dFill(fill_value, fv) ==
    IF IsExtrapolate(fill_value)
    THEN [kind |-> "extrapolate", items |-> <<>>]
    ELSE [kind |-> "list", items |-> <<fv.low, fv.high>>]

\* interp1d(x, y, fill_value=..., bounds_error=False)(m_WD), after the warnings w
Tabulated(x, y, m_WD, fill_value, fv, w) ==
    LET f == Interp1dFill(fill_value, fv)
    IN  IF interp1d_init(x, y, f) # "none"
        THEN Raise(interp1d_init(x, y, f), w)
        ELSE Done(interp1d_call(x, y, f, m_WD), w)

Cummings18_m_f == <<Dec(19, 100), Dec(4, 10), Dec(50, 100), Dec(72, 100),
                    Dec(87, 100), Dec(125, 100), Dec(14, 10)>>
Cummings18_m_i == <<Dec(23, 100), Dec(5, 10), Dec(95, 100), Dec(28, 10),
                    Dec(365, 100), Dec(82, 10), Dec(10, 1)>>

\* lines 232-249
Cummings18(m_WD, fill_value, fv) ==
    Tabulated(Cummings18_m_f, Cummings18_m_i, m_WD, fill_value, fv,
              DomainWarnings(m_WD, Dec(19, 100), Dec(14, 10)))

ElBadry18_m_f == <<Dec(5, 10), Dec(67, 100), Dec(81, 100), Dec(91, 100), Dec(137, 100)>>
ElBadry18_m_i == <<Dec(95, 100), Dec(275, 100), Dec(354, 100), Dec(521, 100), Dec(8, 1)>>

\* lines 252-270
ElBadry18(m_WD, fill_value, fv) ==
    Tabulated(ElBadry18_m_f, ElBadry18_m_i, m_WD, fill_value, fv,
              DomainWarnings(m_WD, Dec(5, 10), Dec(137, 100)))

\* lines 273-285: mass is None (the default) or the pair (m_i, m_f); no warning
Manual(m_WD, fill_value, fv, mass) ==
    IF mass = <<>> THEN Raise("TypeError", <<>>)
    ELSE Tabulated(mass[2], mass[1], m_WD, fill_value, fv, <<>>)

\* lines 120-288: m_MS before the floor, or the exception raised
Relation(m_WD, model, fill_value, fv, mass) ==
    CASE model = "Catalan08"  -> Catalan08(m_WD, fill_value, fv)
      [] model = "Catalan08b" -> Catalan08b(m_WD, fill_value, fv)
      [] model = "Salaris09"  -> Salaris09(m_WD, fill_value, fv)
      [] model = "Salaris09b" -> Salaris09b(m_WD, fill_value, fv)
      [] model = "Williams09" -> Williams09(m_WD, fill_value, fv)
      [] model = "Kalirai09"  -> Kalirai09(m_WD, fill_value, fv)
      [] model = "Kalirai09b" -> Kalirai09b(m_WD, fill_value, fv)
      [] model = "Cummings18" -> Cummings18(m_WD, fill_value, fv)
      [] model = "ElBadry18"  -> ElBadry18(m_WD, fill_value, fv)
      [] model = "manual"     -> Manual(m_WD, fill_value, fv, mass)
      [] OTHER                -> Raise("ValueError", <<>>)

\* the least and the greatest fitted WD mass of a relation: the bounds of its
\* two warnings and of its fill; for 'manual', which has no warning, the ends
\* of the final masses handed to interp1d
FittedDomain(model, mass) ==
    CASE model \in {"Catalan08", "Kalirai09", "Kalirai09b"} ->
            [lo |-> Dec(5741, 10000), hi |-> Dec(11195, 10000)]
      [] model = "Catalan08b" -> [lo |-> Dec(573, 1000), hi |-> Dec(11948, 10000)]
      [] model = "Salaris09"  -> [lo |-> Dec(6088, 10000), hi |-> Dec(118, 100)]
      [] model = "Salaris09b" -> [lo |-> Dec(5588, 10000), hi |-> Dec(10785, 10000)]
      [] model = "Williams09" -> [lo |-> Dec(50025, 100000), hi |-> Dec(1371, 1000)]
      [] model = "Cummings18" -> [lo |-> Dec(19, 100), hi |-> Dec(14, 10)]
      [] model = "ElBadry18"  -> [lo |-> Dec(5, 10), hi |-> Dec(137, 100)]
      [] model = "manual"     -> [lo |-> mass[2][1], hi |-> mass[2][Len(mass[2])]]

\* a variant of the floor with its comparison reversed, m_MS[m_MS > m_WD] = ...
FloorReversed(m_MS, m_WD, legacy) ==
    LET mask == ArrLtArr(m_WD, m_MS)
    IN  IF legacy
        THEN [exc |-> "none", m_MS |-> SetMaskedArr(m_MS, mask, Compress(m_WD, mask))]
        ELSE [exc |-> "IndexError", m_MS |-> <<>>]

\* line 291: m_MS[m_MS < m_WD] = m_WD[[m_MS < m_WD]].  The index [mask] is a
\* list holding the mask: numpy < 1.23 reads it as the tuple (mask,), i.e.
\* m_WD[mask]; later numpy reads it as a 2-D boolean array index, which a
\* 1-D m_WD rejects with IndexError whatever the mask holds.
Floor(m_MS, m_WD, legacy) ==
    LET mask == ArrLtArr(m_MS, m_WD)
    IN  IF legacy
        THEN [exc |-> "none", m_MS |-> SetMaskedArr(m_MS, mask, Compress(m_WD, mask))]
        ELSE [exc |-> "IndexError", m_MS |-> <<>>]

\* m_MS as line 290 finds it: the relation's value with the fill applied
Unfloored(m_WD_in, model, fill_value, mass) ==
    LET m_WD == Reshape1D(m_WD_in)
        fv   == FillValueCheck(fill_value)
    IN  IF fv.exc # "none" THEN Raise(fv.exc, <<>>)
        ELSE Relation(m_WD, model, fill_value, fv, mass)

\* lines 290-293 after the outcome r of the lines before them
Floored(r, m_WD, legacy) ==
    IF r.exc # "none" THEN r
    ELSE LET fl == Floor(r.value, m_WD, legacy)
         IN  IF fl.exc # "none" THEN Raise(fl.exc, r.warnings)
             ELSE Done(fl.m_MS, r.warnings)

IFMR(m_WD_in, model, fill_value, mass, legacy) ==
    Floored(Unfloored(m_WD_in, model, fill_value, mass), Reshape1D(m_WD_in), legacy)

-----------------------------------------------------------------------------
(* Long integers: the Choi16 polynomials need more than 32 bits.  A natural *)
(* number is the sequence of its base-10000 digits, lowest first, without   *)
(* leading zeros; a signed number is [neg, mag].                            *)

Base == 100 * 100

RECURSIVE BigFromNat(_)
BigFromNat(n) == IF n = 0 THEN <<>> ELSE <<n % Base>> \o BigFromNat(n \div Base)

RECURSIVE BigMulCarry(_, _, _, _)
BigMulCarry(b, s, i, carry) ==
    IF i > Len(b) THEN BigFromNat(carry)
    ELSE LET t == b[i] * s + carry
         IN  <<t % Base>> \o BigMulCarry(b, s, i + 1, t \div Base)

\* b * s for 0 <= s < 200000
BigMulNat(b, s) == IF s = 0 THEN <<>> ELSE BigMulCarry(b, s, 1, 0)

BigDigit(b, i) == IF i <= Len(b) THEN b[i] ELSE 0

RECURSIVE BigAddCarry(_, _, _, _)
BigAddCarry(a, b, i, carry) ==
    IF i > Len(a) /\ i > Len(b) THEN BigFromNat(carry)
    ELSE LET t == BigDigit(a, i) + BigDigit(b, i) + carry
         IN  <<t % Base>> \o BigAddCarry(a, b, i + 1, t \div Base)

BigAdd(a, b) == BigAddCarry(a, b, 1, 0)

RECURSIVE BigStrip(_)
BigStrip(b) ==
    IF b = <<>> THEN <<>>
    ELSE IF b[Len(b)] = 0 THEN BigStrip(SubSeq(b, 1, Len(b) - 1))
    ELSE b

RECURSIVE BigSubBorrow(_, _, _, _)
BigSubBorrow(a, b, i, borrow) ==
    IF i > Len(a) THEN <<>>
    ELSE LET t == a[i] - BigDigit(b, i) - borrow
         IN  IF t < 0 THEN <<t + Base>> \o BigSubBorrow(a, b, i + 1, 1)
             ELSE <<t>> \o BigSubBorrow(a, b, i + 1, 0)

\* a - b for a >= b
BigSub(a, b) == BigStrip(BigSubBorrow(a, b, 1, 0))

RECURSIVE BigLtFrom(_, _, _)
BigLtFrom(a, b, i) ==
    IF i = 0 THEN FALSE
    ELSE IF a[i] # b[i] THEN a[i] < b[i]
    ELSE BigLtFrom(a, b, i - 1)

BigLt(a, b) ==
    IF Len(a) # Len(b) THEN Len(a) < Len(b) ELSE BigLtFrom(a, b, Len(a))

SBig(n) == [neg |-> n < 0, mag |-> BigFromNat(Abs(n))]

SMul(x, s) ==
    LET m == BigMulNat(x.mag, Abs(s))
    IN  [neg |-> (m # <<>>) /\ (x.neg # (s < 0)), mag |-> m]

SAdd(x, y) ==
    IF x.neg = y.neg THEN [neg |-> x.neg, mag |-> BigAdd(x.mag, y.mag)]
    ELSE IF BigLt(x.mag, y.mag) THEN [neg |-> y.neg, mag |-> BigSub(y.mag, x.mag)]
    ELSE LET m == BigSub(x.mag, y.mag)
         IN  [neg |-> (m # <<>>) /\ x.neg, mag |-> m]

SNeg(x) == [neg |-> (x.mag # <<>>) /\ ~x.neg, mag |-> x.mag]
SSub(x, y) == SAdd(x, SNeg(y))
SLt(x, y) == LET d == SSub(x, y) IN d.neg

RECURSIVE SMulPow(_, _, _)
SMulPow(x, s, k) == IF k = 0 THEN x ELSE SMulPow(SMul(x, s), s, k - 1)

-----------------------------------------------------------------------------
(* MS_age, src/__init__.py 296-362 *)

\* The coefficients of lines 341-342 and 344-346 in units of 1e-8, constant
\* term first; the cubic has no fourth-order term.
QuarticCoeff == <<1337807000, -629251700, 445183700, -177331500, 29449630>>
CubicCoeff   == <<1075941000, -104352300, 13660880, -711029, 0>>

\* sum of c[i+1] * n^i * d^(4-i), i = 0..4: the polynomial at n/d, times 1e8 d^4
PolyNum(c, n, d) ==
    LET a4 == SBig(c[5])
        a3 == SAdd(SMul(a4, n), SMulPow(SBig(c[4]), d, 1))
        a2 == SAdd(SMul(a3, n), SMulPow(SBig(c[3]), d, 2))
        a1 == SAdd(SMul(a2, n), SMulPow(SBig(c[2]), d, 3))
    IN  SAdd(SMul(a1, n), SMulPow(SBig(c[1]), d, 4))

\* A lifetime MS_age returns is one of two kinds of number.
\* 10**p, kept as its decimal logarithm p = num / (1e8 den^4):
Pow10(num, den) == [kind |-> "pow10", num |-> num, den |-> den]
\* the rational q itself, as polyval and a callable return it:
Plain(q) == [kind |-> "plain", num |-> SBig(q[1]), den |-> q[2]]

\* 10**(13.37807 - 6.292517 mi + 4.451837 mi**2 - 1.773315 mi**3 + 0.2944963 mi**4)
Quartic(mi) == Pow10(PolyNum(QuarticCoeff, mi[1], mi[2]), mi[2])

\* a variant of the cubic with two digits of its constant term exchanged,
\* 10.75491 for 10.75941
CubicTransposed(mi) ==
    Pow10(PolyNum(<<1075491000, -104352300, 13660880, -711029, 0>>, mi[1], mi[2]), mi[2])

\* 10**(10.75941 - 1.043523 mi + 0.1366088 mi**2 - 7.110290e-3 mi**3)
Cubic(mi) == Pow10(PolyNum(CubicCoeff, mi[1], mi[2]), mi[2])

\* the progenitor mass at which Choi16 changes polynomial
Choi16Switch == Dec(211, 100)

\* a variant that changes polynomial at the switch point itself, mi >= 2.11
Choi16AtOrAbove(mi) ==
    LET life0 == [i \in DOMAIN mi |-> Quartic(mi[i])]
        mask  == ArrGe(mi, Choi16Switch)
        above == Compress(mi, mask)
    IN  IF AnyTrue(mask)
        THEN SetMaskedArr(life0, mask, [k \in DOMAIN above |-> Cubic(above[k])])
        ELSE life0

\* lines 340-346
Choi16(mi) ==
    LET life0 == [i \in DOMAIN mi |-> Quartic(mi[i])]
        mask  == ArrGt(mi, Choi16Switch)
        above == Compress(mi, mask)
    IN  IF AnyTrue(mask)
        THEN SetMaskedArr(life0, mask, [k \in DOMAIN above |-> Cubic(above[k])])
        ELSE life0

\* np.polynomial.polynomial.polyval(x, c) for a scalar x: Horner's rule from
\* the highest coefficient, c0 = c[-1] + x*0; c0 = c[-i] + c0*x
RECURSIVE Horner(_, _, _)
Horner(x, c, i) ==
    IF i = Len(c) THEN RatAdd(c[i], RatMul(x, <<0, 1>>))
    ELSE RatAdd(c[i], RatMul(Horner(x, c, i + 1), x))

polyval(x, c) == [i \in DOMAIN x |-> Plain(Horner(x[i], c, 1))]

\* mass: None
NoMass == <<>>

\* coeff: None, one number (a 0-d array) or a sequence of numbers
NoCoeff     == [kind |-> "none", items |-> <<>>]
Coeffs(seq) == [kind |-> "seq", items |-> seq]

\* interpolator(mi) for the callables of the model: None is not callable
CallInterpolator(interpolator, mi) ==
    IF interpolator = "None" THEN Raise("TypeError", <<>>)
    ELSE DoneAge([i \in DOMAIN mi |-> Plain(mi[i])], <<Len(mi)>>, <<>>)

\* lines 339-359 after the outcome r of the call of IFMR
Life0(r, model, coeff, interpolator) ==
    IF r.exc # "none" THEN r
    ELSE CASE model = "Choi16" ->
                DoneAge(Choi16(r.value), <<Len(r.value)>>, r.warnings)
           [] model = "manual_poly" ->
                IF coeff.kind = "none" THEN Raise("TypeError", r.warnings)
                ELSE DoneAge(polyval(r.value, coeff.items), <<Len(r.value)>>,
                             r.warnings)
           [] model = "manual_interpolator" ->
                IF CallInterpolator(interpolator, r.value).exc # "none"
                THEN Raise(CallInterpolator(interpolator, r.value).exc, r.warnings)
                ELSE DoneAge(CallInterpolator(interpolator, r.value).age,
                             <<Len(r.value)>>, r.warnings)
           [] OTHER -> Raise("ValueError", r.warnings)

\* lines 331-359: the function MS_age before line 362 wraps it
MS_age_py(m_WD_in, model, coeff, interpolator, ifmr_model, ifmr_fill_value, ifmr_mass, legacy) ==
    Life0(IFMR(m_WD_in, ifmr_model, ifmr_fill_value, ifmr_mass, legacy), model, coeff,
          interpolator)

\* One argument of the np.vectorize wrapper as an array: a 0-d array (one
\* element, shape ()) or a 1-D array.
Scalar0d(x) == [shape |-> <<>>, data |-> <<x>>]
Array1d(xs) == [shape |-> <<Len(xs)>>, data |-> xs]

VecCoeff(coeff) ==
    IF coeff.kind = "seq" THEN Array1d(coeff.items) ELSE Scalar0d(coeff)
VecFill(fill_value) ==
    IF fill_value.kind = "list" THEN Array1d(fill_value.items) ELSE Scalar0d(fill_value)

\* numpy broadcasting of 0-d and 1-D arrays: the common shape, unless two
\* lengths other than 1 differ
Broadcast(arrs) ==
    LET dims    == {arrs[i].shape[1] : i \in {j \in DOMAIN arrs : arrs[j].shape # <<>>}}
        nonunit == dims \ {1}
    IN  IF Cardinality(nonunit) > 1 THEN [ok |-> FALSE, shape |-> <<>>]
        ELSE IF dims = {} THEN [ok |-> TRUE, shape |-> <<>>]
        ELSE IF nonunit = {} THEN [ok |-> TRUE, shape |-> <<1>>]
        ELSE [ok |-> TRUE, shape |-> <<CHOOSE d \in nonunit : TRUE>>]

\* the number of elements of a shape
Size(shape) == IF shape = <<>> THEN 1 ELSE shape[1]

\* element j of an array broadcast to a longer shape
BroadcastElem(arr, j) == IF Len(arr.data) = 1 THEN arr.data[1] ELSE arr.data[j]

RECURSIVE ConcatWarnings(_, _)
ConcatWarnings(outs, k) ==
    IF k = 0 THEN <<>> ELSE ConcatWarnings(outs, k - 1) \o outs[k].warnings

\* coeff and ifmr_fill_value as the call for element j receives them: a
\* sequence is an array argument like m_WD, and the call gets its element j
ElemCoeff(coeff, j) ==
    IF coeff.kind = "seq" THEN Coeffs(<<BroadcastElem(VecCoeff(coeff), j)>>) ELSE coeff
ElemFill(ifmr_fill_value, j) ==
    IF ifmr_fill_value.kind = "list"
    THEN NumFill(BroadcastElem(VecFill(ifmr_fill_value), j))
    ELSE ifmr_fill_value

\* The call np.vectorize makes for element j of the broadcast arguments:
\* every argument arrives as a scalar.
VecCall(m_WD_in, model, coeff, interpolator, ifmr_model, ifmr_fill_value, ifmr_mass, legacy, j) ==
    MS_age_py(Scalar0d(BroadcastElem(m_WD_in, j)), model, ElemCoeff(coeff, j),
              interpolator, ifmr_model, ElemFill(ifmr_fill_value, j), ifmr_mass,
              legacy)

\* the first k calls np.vectorize makes: one on the first element to learn the
\* output type, then one per element
RECURSIVE VecCalls(_, _, _, _, _, _, _, _, _)
VecCalls(m_WD_in, model, coeff, interpolator, ifmr_model, ifmr_fill_value, ifmr_mass, legacy, k) ==
    IF k = 0 THEN <<>>
    ELSE Append(VecCalls(m_WD_in, model, coeff, interpolator, ifmr_model,
                         ifmr_fill_value, ifmr_mass, legacy, k - 1),
                VecCall(m_WD_in, model, coeff, interpolator, ifmr_model,
                        ifmr_fill_value, ifmr_mass, legacy,
                        IF k = 1 THEN 1 ELSE k - 1))

\* the shape the arguments of the wrapper broadcast to
VecShape(m_WD_in, coeff, ifmr_fill_value) ==
    Broadcast(<<m_WD_in, VecCoeff(coeff), VecFill(ifmr_fill_value)>>)

\* line 362, MS_age = np.vectorize(MS_age): every argument is broadcast and
\* the function is called once per element with scalars, after one more call
\* on the first element to learn the output type; a size-0 input raises
\* ValueError.  Each call returns a 1-element array, read as a float.
\* bc is the broadcast of the arguments, n its size, outs the calls made.
Vectorized(bc, n, outs) ==
    LET bad   == {k \in 1..(n + 1) : outs[k].exc # "none"}
        first == CHOOSE k \in bad : \A l \in bad : k <= l
    IN  IF ~bc.ok THEN Raise("ValueError", <<>>)
        ELSE IF n = 0 THEN Raise("ValueError", <<>>)
        ELSE IF bad # {} THEN Raise(outs[first].exc, ConcatWarnings(outs, first))
        ELSE DoneAge([j \in 1..n |-> outs[j + 1].age[1]], bc.shape,
                     ConcatWarnings(outs, n + 1))

\* MS_age(...) as callers see it: the wrapper applied to the arguments
MS_age(m_WD_in, model, coeff, interpolator, ifmr_model, ifmr_fill_value, ifmr_mass, legacy) ==
    LET bc == VecShape(m_WD_in, coeff, ifmr_fill_value)
    IN  Vectorized(bc, Size(bc.shape),
                   VecCalls(m_WD_in, model, coeff, interpolator, ifmr_model,
                            ifmr_fill_value, ifmr_mass, legacy, Size(bc.shape) + 1))

-----------------------------------------------------------------------------
(* Floats that may be special: the columns of a cooling-track table *)

FNum(q) == [kind |-> "num",  v |-> q]
FNan    == [kind |-> "nan",  v |-> <<0, 1>>]
FInf    == [kind |-> "inf",  v |-> <<0, 1>>]
FNegInf == [kind |-> "-inf", v |-> <<0, 1>>]

FNeg(a) ==
    CASE a.kind = "num"  -> FNum(<<-a.v[1], a.v[2]>>)
      [] a.kind = "inf"  -> FNegInf
      [] a.kind = "-inf" -> FInf
      [] OTHER           -> FNan

\* a + b: nan is contagious and inf + -inf is nan
FAdd(a, b) ==
    IF a.kind = "nan" \/ b.kind = "nan" THEN FNan
    ELSE IF a.kind = "num" /\ b.kind = "num" THEN FNum(RatAdd(a.v, b.v))
    ELSE IF a.kind = "num" THEN b
    ELSE IF b.kind = "num" THEN a
    ELSE IF a.kind = b.kind THEN a
    ELSE FNan

FSub(a, b) == FAdd(a, FNeg(b))

\* a * q for a rational q > 0
FScale(a, q) == IF a.kind = "num" THEN FNum(RatMul(a.v, q)) ELSE a

\* a > q: False for nan
FGt(a, q) ==
    CASE a.kind = "num" -> RatGt(a.v, q)
      [] a.kind = "inf" -> TRUE
      [] OTHER          -> FALSE

RECURSIVE IntPow10(_)
IntPow10(k) == IF k = 0 THEN 1 ELSE 10 * IntPow10(k - 1)

\* 10**a, exact for the whole exponents the tables of the model hold
TenTo(a) ==
    CASE a.kind = "nan"  -> FNan
      [] a.kind = "inf"  -> FInf
      [] a.kind = "-inf" -> FNum(<<0, 1>>)
      [] a.kind = "num" /\ a.v[2] = 1 ->
            IF a.v[1] >= 0 THEN FNum(<<IntPow10(a.v[1]), 1>>)
            ELSE FNum(<<1, IntPow10(-a.v[1])>>)

RECURSIVE IsPow10(_)
IsPow10(q) ==
    IF q = <<1, 1>> THEN TRUE
    ELSE IF q[2] = 1 THEN q[1] > 0 /\ q[1] % 10 = 0 /\ IsPow10(<<q[1] \div 10, 1>>)
    ELSE q[1] = 1 /\ q[2] % 10 = 0 /\ IsPow10(<<1, q[2] \div 10>>)

RECURSIVE Log10Exact(_)
Log10Exact(q) ==
    IF q = <<1, 1>> THEN 0
    ELSE IF q[2] = 1 THEN Log10Exact(<<q[1] \div 10, 1>>) + 1
    ELSE Log10Exact(<<1, q[2] \div 10>>) - 1

\* np.log10(a), exact for the powers of ten the tables of the model hold:
\* log10(0) is -inf and the logarithm of a negative number is nan
np_log10(a) ==
    CASE a.kind = "nan"                -> FNan
      [] a.kind = "inf"                -> FInf
      [] a.kind = "-inf"               -> FNan
      [] a.kind = "num" /\ a.v[1] < 0  -> FNan
      [] a.kind = "num" /\ a.v[1] = 0  -> FNegInf
      [] a.kind = "num" /\ IsPow10(a.v) -> FNum(<<Log10Exact(a.v), 1>>)

\* 4.75 - 2.5 * logL
MbolOf(logL) == FSub(FNum(Dec(475, 100)), FScale(logL, Dec(25, 10)))

-----------------------------------------------------------------------------
(* read_cooling_tracks, src/__init__.py 592-1021 *)

\* 'Renedo2010_' in name, 'BaSTI' in name, for the names of the model
HasRenedo2010_(name) == name \in {"Renedo2010_001", "Renedo2010_0001"}
HasBaSTI(name)       == name \in {"BaSTI", "BaSTI_nosep"}

\* a variant that shifts breakpoint 1 when for_comparison is false
mass_separation_1Reversed(middle_mass_model, for_comparison) ==
    IF HasBaSTI(middle_mass_model) THEN Dec(501, 1000)
    ELSE IF HasRenedo2010_(middle_mass_model)
            \/ middle_mass_model = "Camisassa2017" \/ middle_mass_model = "PG"
    THEN IF for_comparison THEN Dec(45, 100) ELSE Dec(501, 1000)
    ELSE Dec(45, 100)

\* lines 664-674
mass_separation_1(middle_mass_model, for_comparison) ==
    IF HasBaSTI(middle_mass_model) THEN Dec(501, 1000)
    ELSE IF HasRenedo2010_(middle_mass_model)
            \/ middle_mass_model = "Camisassa2017" \/ middle_mass_model = "PG"
    THEN IF for_comparison THEN Dec(501, 1000) ELSE Dec(45, 100)
    ELSE Dec(45, 100)

\* a variant whose breakpoint 2 for MESA ignores for_comparison
mass_separation_2Fixed(high_mass_model, for_comparison) ==
    IF high_mass_model = "ONe" THEN Dec(109, 100) ELSE Dec(99, 100)

\* a variant whose breakpoint 2 for ONe lies above the first ONe mass
mass_separation_2Late(high_mass_model, for_comparison) ==
    IF high_mass_model = "ONe" THEN Dec(115, 100) ELSE Dec(99, 100)

\* lines 665, 676-686
mass_separation_2(high_mass_model, for_comparison) ==
    IF high_mass_model = "ONe" THEN Dec(109, 100)
    ELSE IF high_mass_model = "MESA"
    THEN IF for_comparison THEN Dec(101, 100) ELSE Dec(99, 100)
    ELSE Dec(99, 100)

\* The files.  A row holds the columns the function reads:
\*   logg   the surface-gravity column
\*   age    the cooling-age column, in the unit of the family: yr (Fontaine,
\*          Montreal), Myr (Renedo), log10 Myr (Camisassa, ONe), log10 yr
\*          (BaSTI), Gyr (MESA)
\*   total  the total-age column of MESA, in Gyr
\*   teff   the temperature column: Teff (Fontaine, Montreal), else log10 Teff
\*   lum    the luminosity column: L in 1e30 erg/s (Fontaine), Mbol
\*          (Montreal), else log10 L/Lsun
\* The rows of the model come in kinds, named after the cooling age they
\* hold: "zero" (0 yr), "young" (below 1000 yr), "edge" (1000 yr), "old"
\* (above 1000 yr), "nan" (a nan age); three more kinds are old and hold a
\* nan logg ("nanlogg"), an infinite temperature ("posinf"), or an infinite
\* temperature and a logg of -inf ("mixinf").
AgeYears(kind, below, above) ==
    CASE kind = "zero"  -> 0
      [] kind = "young" -> below
      [] kind = "edge"  -> 1000
      [] OTHER          -> above

\* log10 of the ages 0, 100, 1000 and 10000 yr in a unit of 10**shift yr
AgeLog(kind, shift) ==
    CASE kind = "zero"  -> FNegInf
      [] kind = "young" -> FNum(<<2 - shift, 1>>)
      [] kind = "edge"  -> FNum(<<3 - shift, 1>>)
      [] OTHER          -> FNum(<<4 - shift, 1>>)

AgeColumn(family, kind) ==
    CASE kind = "nan" -> FNan
      [] kind # "nan" /\ family \in {"Fontaine", "Montreal"} ->
            FNum(<<AgeYears(kind, 999, 1001), 1>>)
      [] kind # "nan" /\ family = "Renedo" ->
            FNum(Rat(AgeYears(kind, 999, 1001), 1000000))
      [] kind # "nan" /\ family = "MESA" ->
            FNum(Rat(AgeYears(kind, 999, 1001), 1000000000))
      [] kind # "nan" /\ family = "BaSTI" -> AgeLog(kind, 0)
      [] kind # "nan" /\ family \in {"Camisassa", "ONe"} -> AgeLog(kind, 6)

FileRow(family, kind) ==
    [logg  |-> CASE kind = "nanlogg" -> FNan
                 [] kind = "mixinf"  -> FNegInf
                 [] OTHER            -> FNum(Dec(8, 1)),
     age   |-> AgeColumn(family, kind),
     total |-> FNum(Dec(1, 1)),
     teff  |-> IF kind \in {"posinf", "mixinf"} THEN FInf
               ELSE IF family \in {"Fontaine", "Montreal"} THEN FNum(Dec(10000, 1))
               ELSE FNum(Dec(4, 1)),
     lum   |-> CASE family = "Fontaine" -> FNum(Dec(3828, 1))
                 [] family = "Montreal" -> FNum(Dec(12, 1))
                 [] OTHER               -> FNum(Dec(0, 1))]

\* the kinds of the rows of a file, from its first row on, repeated to the
\* length of the file
Pattern == <<"zero", "edge", "old", "young", "nan", "nanlogg", "posinf", "mixinf">>

\* Every file of a family holds content.len rows (content.mesa_len for MESA).
FileTable(family, content) ==
    LET n == IF family = "MESA" THEN content.mesa_len ELSE content.len
    IN  [i \in 1..n |-> FileRow(family, Pattern[((i - 1) % Len(Pattern)) + 1])]

\* Files whose rows differ from row to row and from mass to mass, all of
\* 10**4 K.  Row i of the file of a mass holds
\*   a cooling age of 10**(3 + i) yr,
\*   the logg 7.25, 8.0 or 9.0, in turn,
\*   log10 L/Lsun = -3 in the rows of odd i, whatever the mass, and -2, -3 or
\*   -4 in the rows of even i, by the mass
\* in the units of the family, and a MESA total age of 0.1 Gyr more than the
\* cooling age.
CoolingLoggs == <<Dec(725, 100), Dec(8, 1), Dec(9, 1)>>

MassClass(mass) == ((10 * mass[1]) \div mass[2]) % 3

LogL(mass, i) == IF i % 2 = 1 THEN -3 ELSE -2 - MassClass(mass)

CoolingRow(family, mass, i) ==
    LET yr   == IntPow10(3 + i)
        logL == LogL(mass, i)
    IN  [logg  |-> FNum(CoolingLoggs[((i - 1) % 3) + 1]),
         age   |-> CASE family \in {"Fontaine", "Montreal"} -> FNum(<<yr, 1>>)
                     [] family = "Renedo" -> FNum(Rat(yr, 1000000))
                     [] family = "MESA"   -> FNum(Rat(yr, 1000000000))
                     [] family = "BaSTI"  -> FNum(<<3 + i, 1>>)
                     [] OTHER             -> FNum(<<i - 3, 1>>),
         total |-> FNum(RatAdd(Rat(yr, 1000000000), Dec(1, 10))),
         teff  |-> IF family \in {"Fontaine", "Montreal"} THEN FNum(Dec(10000, 1))
                   ELSE FNum(Dec(4, 1)),
         lum   |-> CASE family = "Fontaine" -> FNum(Rat(3828, IntPow10(-logL)))
                     [] family = "Montreal" ->
                          FNum(RatAdd(Dec(475, 100), Rat(-25 * logL, 10)))
                     [] OTHER -> FNum(<<logL, 1>>)]

\* the file of one track: content.varied tells which files the call reads
TrackTable(family, mass, content) ==
    IF content.varied
    THEN [i \in 1..(IF family = "MESA" THEN content.mesa_len ELSE content.len) |->
             CoolingRow(family, mass, i)]
    ELSE FileTable(family, content)

\* Cool[::dn] for dn > 0: the rows at indices 0, dn, 2 dn, ...
Decimate(Cool, dn) ==
    [k \in 1..((Len(Cool) + dn - 1) \div dn) |-> Cool[(k - 1) * dn + 1]]

\* one element of the six stacked arrays; the total age is the sum of a part
\* read from the table and of the MS_age values in ms (none or one)
StackRow(mass, logg, age_table, ms, age_cool, logteff, Mbol) ==
    [mass |-> mass, logg |-> logg, age |-> [table |-> age_table, ms |-> ms],
     age_cool |-> age_cool, logteff |-> logteff, Mbol |-> Mbol]

TrackRaise(e, w)   == [exc |-> e, rows |-> <<>>, warnings |-> w]
TrackDone(rows, w) == [exc |-> "none", rows |-> rows, warnings |-> w]

RECURSIVE Repeat(_, _)
Repeat(w, n) == IF n = 0 THEN <<>> ELSE Repeat(w, n - 1) \o w

\* MS_age(mass, ms_model, ms_coeff, ms_interpolator, ifmr_model,
\*        ifmr_fill_value, ifmr_mass) for the mass of a track
TrackMS_age(mass, a, legacy) ==
    MS_age(Scalar0d(mass), a.ms_model, a.coeff, a.interpolator, a.model,
           a.fill_value, a.mass, legacy)

\* column + MS_age(...): the array MS_age returns is broadcast against a
\* column of n elements.  A 0-d or 1-element array adds to every element; a
\* longer array adds element by element to a column of its own length, and
\* fails against any other (a column of one element would be stretched to
\* the longer length, and line 1017 then adds arrays of different lengths).
AddFails(ms, n) == Len(ms.age) > 1 /\ n # Len(ms.age)

\* the MS_age values added to element i of the column
LifeAt(ms, i) == IF Len(ms.age) = 1 THEN <<ms.age[1]>> ELSE <<ms.age[i]>>

\* lines 746-766: the elements of one Fontaine file, of lines text, given the
\* outcome ms of MS_age, which is called for every line
FontaineRows(mass, text, ms) ==
    LET life == <<ms.age[1]>>
    IN  IF Len(text) > 0 /\ ms.exc # "none" THEN TrackRaise(ms.exc, ms.warnings)
        ELSE IF Len(text) > 0 /\ Len(ms.age) > 1
        THEN TrackRaise("TypeError", ms.warnings)
        ELSE TrackDone(
                 [i \in DOMAIN text |->
                     LET line == text[i]
                     IN  StackRow(mass, line.logg, line.age, life, line.age,
                                  np_log10(line.teff),
                                  MbolOf(np_log10(FScale(line.lum, <<1, 3828>>))))],
                 IF Len(text) > 0 THEN Repeat(ms.warnings, Len(text)) ELSE <<>>)

\* lines 731-767: one Fontaine file
ReadFontaine(mass, a, legacy) ==
    FontaineRows(mass, TrackTable("Fontaine", mass, a.content), TrackMS_age(mass, a, legacy))

\* lines 785-794: the elements of one Montreal table
MontrealRows(mass, Cool, ms) ==
    IF ms.exc # "none" THEN TrackRaise(ms.exc, ms.warnings)
    ELSE IF AddFails(ms, Len(Cool)) THEN TrackRaise("ValueError", ms.warnings)
    ELSE TrackDone(
                 [i \in DOMAIN Cool |->
                     LET row == Cool[i]
                     IN  StackRow(mass, row.logg, row.age, LifeAt(ms, i), row.age,
                                  np_log10(row.teff), row.lum)],
                 ms.warnings)

\* lines 781-794: one Montreal file
ReadMontreal(mass, a, legacy) ==
    MontrealRows(mass, Decimate(TrackTable("Montreal", mass, a.content), 1),
                 TrackMS_age(mass, a, legacy))

\* lines 823-831: the elements of one Renedo table
RenedoRows(mass, Cool, ms) ==
    IF ms.exc # "none" THEN TrackRaise(ms.exc, ms.warnings)
    ELSE IF AddFails(ms, Len(Cool)) THEN TrackRaise("ValueError", ms.warnings)
    ELSE TrackDone(
                 [i \in DOMAIN Cool |->
                     LET row == Cool[i]
                         yr  == FScale(row.age, <<1000000, 1>>)
                     IN  StackRow(mass, row.logg, yr, LifeAt(ms, i), yr, row.teff,
                                  MbolOf(row.lum))],
                 ms.warnings)

\* lines 817-839: one Renedo file
ReadRenedo(mass, a, legacy) ==
    RenedoRows(mass, Decimate(TrackTable("Renedo", mass, a.content), 5),
               TrackMS_age(mass, a, legacy))

\* (10**Cool['Log(edad/Myr)'] - 10**Cool['Log(edad/Myr)'][0]) * 1e6
SinceFirst(Cool, i) ==
    FScale(FSub(TenTo(Cool[i].age), TenTo(Cool[1].age)), <<1000000, 1>>)

\* lines 845-877: one Camisassa file; the total age is the table's
ReadCamisassa(mass, a) ==
    LET dn   == IF RatGt(mass, Dec(95, 100)) THEN 50 ELSE 1
        Cool == Decimate(TrackTable("Camisassa", mass, a.content), dn)
    IN  IF Len(Cool) = 0 THEN TrackRaise("IndexError", <<>>)
        ELSE TrackDone(
                 [i \in DOMAIN Cool |->
                     LET row == Cool[i]
                     IN  StackRow(mass, row.logg,
                                  FScale(TenTo(row.age), <<1000000, 1>>), <<>>,
                                  SinceFirst(Cool, i), row.teff, MbolOf(row.lum))],
                 <<>>)

\* logg_func(logteff, mass) for the callable load_model passes, an
\* interpolator over finite points: nan where logteff is not finite
CallLoggFunc(logteff) ==
    IF logteff.kind = "num" THEN FNum(Dec(8, 1)) ELSE FNan

\* lines 899-918: the elements of one BaSTI table; logg_func is None unless
\* the caller passes it
BaSTIRows(mass, a, Cool, ms) ==
    IF a.atm_type \notin {"H", "He"} THEN TrackRaise("UnboundLocalError", <<>>)
    ELSE IF a.logg_func = "None" THEN TrackRaise("TypeError", <<>>)
    ELSE IF ms.exc # "none" THEN TrackRaise(ms.exc, ms.warnings)
    ELSE IF AddFails(ms, Len(Cool)) THEN TrackRaise("ValueError", ms.warnings)
    ELSE TrackDone(
                 [i \in DOMAIN Cool |->
                     LET row == Cool[i]
                         yr  == TenTo(row.age)
                     IN  StackRow(mass, CallLoggFunc(row.teff), yr, LifeAt(ms, i), yr,
                                  row.teff, MbolOf(row.lum))],
                 ms.warnings)

\* lines 899-919: one BaSTI file
ReadBaSTI(mass, a, legacy) ==
    LET dn == IF RatGt(mass, Dec(105, 100)) THEN 5 ELSE 1
    IN  BaSTIRows(mass, a, Decimate(TrackTable("BaSTI", mass, a.content), dn),
                  TrackMS_age(mass, a, legacy))

\* lines 924-941: the elements of one ONe table
ONeRows(mass, a, Cool, ms) ==
    IF a.atm_type \notin {"H", "He"} THEN TrackRaise("UnboundLocalError", <<>>)
    ELSE IF Len(Cool) = 0 THEN TrackRaise("IndexError", <<>>)
    ELSE IF ms.exc # "none" THEN TrackRaise(ms.exc, ms.warnings)
    ELSE IF AddFails(ms, Len(Cool)) THEN TrackRaise("ValueError", ms.warnings)
    ELSE TrackDone(
                 [i \in DOMAIN Cool |->
                     LET row == Cool[i]
                         yr  == SinceFirst(Cool, i)
                     IN  StackRow(mass, row.logg, yr, LifeAt(ms, i), yr, row.teff,
                                  MbolOf(row.lum))],
                 ms.warnings)

\* lines 924-955: one ONe file
ReadONe(mass, a, legacy) ==
    ONeRows(mass, a, Decimate(TrackTable("ONe", mass, a.content), 10),
            TrackMS_age(mass, a, legacy))

\* lines 991-1015: one MESA file; dn = len(Cool) // 40 replaces every step
\* chosen before it, and a step of zero is rejected by the slice
ReadMESA(mass, a) ==
    LET table == TrackTable("MESA", mass, a.content)
        dn    == Len(table) \div 40
        Cool  == Decimate(table, dn)
    IN  IF dn = 0 THEN TrackRaise("ValueError", <<>>)
        ELSE TrackDone(
                 [i \in DOMAIN Cool |->
                     LET row == Cool[i]
                     IN  StackRow(mass, row.logg,
                                  FScale(row.total, <<1000000000, 1>>), <<>>,
                                  FScale(row.age, <<1000000000, 1>>),
                                  row.teff, MbolOf(row.lum))],
                 <<>>)

\* the track masses of every family, in the order of the loops; in units of
\* 1/100 (Fontaine, Camisassa, BaSTI, ONe), 1/10 (Montreal), 1/1000 (Renedo)
\* and 1/10000 (MESA) of a solar mass
FontaineMasses  == <<20, 30, 40, 50, 60, 70, 80, 90, 95, 100, 105, 110, 115,
                     120, 125, 130>>
MontrealMasses  == <<2, 3, 4, 5, 6, 7, 8, 9, 10, 12>>
Renedo001Masses == <<524, 570, 593, 609, 632, 659, 705, 767, 837, 877, 934>>
Renedo0001Masses == <<505, 553, 593, 627, 660, 692, 863>>
CamisassaMasses == <<51, 54, 58, 66, 74, 87, 100>>
BaSTIMasses     == <<54, 55, 61, 68, 77, 87, 100, 110, 120>>
ONeMasses       == <<110, 116, 122, 129>>
MESAMassesHe    == <<10124, 10190, 10241, 10358, 10645, 10877, 11102, 11254,
                     11313, 11322, 11466, 11510, 12163, 12200, 12671, 13075>>
MESAMassesH     == <<10124, 10190, 10241, 10358, 10645, 10877, 11102, 11250,
                     11309, 11322, 11466, 11510, 12163, 12200, 12671, 13075>>

\* one file to read: the family and the mass of the track
Track(family, mass) == [family |-> family, mass |-> mass]

\* the tracks made of the masses of a list that pass a test, in list order
TracksOf(family, masses, unit, keep) ==
    Compress([i \in DOMAIN masses |-> Track(family, Rat(masses[i], unit))], keep)

\* lines 707-730: the selection a Fontaine mass is read for, "" for none
FontaineModel(m, s1, s2, a) ==
    IF RatLt(m, s1) /\ a.atm_type = "H" THEN a.low
    ELSE IF RatGt(m, s1) /\ RatLt(m, s2) /\ a.atm_type = "H" THEN a.middle
    ELSE IF RatGt(m, s2) /\ a.atm_type = "H" THEN a.high
    ELSE ""

\* lines 703-730
FontaineTracks(s1, s2, a) ==
    TracksOf("Fontaine", FontaineMasses, 100,
             [i \in DOMAIN FontaineMasses |->
                 FontaineModel(Rat(FontaineMasses[i], 100), s1, s2, a)
                     \in {"Fontaine2001", "Fontaine2001_thin"}])

\* lines 770-780
MontrealTracks(s1, s2, a) ==
    TracksOf("Montreal", MontrealMasses, 10,
             [i \in DOMAIN MontrealMasses |->
                 LET m == Rat(MontrealMasses[i], 10)
                 IN  /\ \/ RatLt(m, s1) /\ a.low = "Fontaine2001"
                        \/ RatGt(m, s1) /\ RatLt(m, s2) /\ a.middle = "Fontaine2001"
                        \/ RatGt(m, s2) /\ a.high = "Fontaine2001"
                     /\ a.atm_type = "He"])

\* lines 804-816
RenedoTracks(a) ==
    IF HasRenedo2010_(a.middle) /\ a.atm_type = "H"
    THEN LET Renedo_masslist == IF a.middle = "Renedo2010_001"
                                THEN Renedo001Masses ELSE Renedo0001Masses
         IN  TracksOf("Renedo", Renedo_masslist, 1000,
                      [i \in DOMAIN Renedo_masslist |-> TRUE])
    ELSE <<>>

\* lines 842-844
CamisassaTracks(s2, a) ==
    IF a.middle = "Camisassa2017" /\ a.atm_type = "He"
    THEN TracksOf("Camisassa", CamisassaMasses, 100,
                  [i \in DOMAIN CamisassaMasses |->
                      RatLt(Rat(CamisassaMasses[i], 100), s2)])
    ELSE <<>>

\* lines 883-898: the selection a BaSTI mass is read for
BaSTIModel(m, s2, a) ==
    IF RatLt(m, s2) THEN a.middle
    ELSE IF RatGt(m, s2) THEN a.high
    ELSE ""

\* lines 880-898
BaSTITracks(s2, a) ==
    TracksOf("BaSTI", BaSTIMasses, 100,
             [i \in DOMAIN BaSTIMasses |->
                 HasBaSTI(BaSTIModel(Rat(BaSTIMasses[i], 100), s2, a))])

\* lines 922-923
ONeTracks(a) ==
    IF a.high = "ONe"
    THEN TracksOf("ONe", ONeMasses, 100, [i \in DOMAIN ONeMasses |-> TRUE])
    ELSE <<>>

\* lines 969-990: mesa_masslist is bound for 'H' and 'He' only
MESATracks(a) ==
    IF a.high # "MESA" THEN <<>>
    ELSE IF a.atm_type = "He"
    THEN TracksOf("MESA", MESAMassesHe, 10000, [i \in DOMAIN MESAMassesHe |-> TRUE])
    ELSE IF a.atm_type = "H"
    THEN TracksOf("MESA", MESAMassesH, 10000, [i \in DOMAIN MESAMassesH |-> TRUE])
    ELSE <<Track("unbound", <<0, 1>>)>>

\* the files read, in the order the function reads them
Tracks(a) ==
    LET s1 == mass_separation_1(a.middle, a.for_comparison)
        s2 == mass_separation_2(a.high, a.for_comparison)
    IN  FontaineTracks(s1, s2, a) \o MontrealTracks(s1, s2, a) \o RenedoTracks(a)
            \o CamisassaTracks(s2, a) \o BaSTITracks(s2, a) \o ONeTracks(a)
            \o MESATracks(a)

ReadTrack(track, a, legacy) ==
    CASE track.family = "Fontaine"  -> ReadFontaine(track.mass, a, legacy)
      [] track.family = "Montreal"  -> ReadMontreal(track.mass, a, legacy)
      [] track.family = "Renedo"    -> ReadRenedo(track.mass, a, legacy)
      [] track.family = "Camisassa" -> ReadCamisassa(track.mass, a)
      [] track.family = "BaSTI"     -> ReadBaSTI(track.mass, a, legacy)
      [] track.family = "ONe"       -> ReadONe(track.mass, a, legacy)
      [] track.family = "MESA"      -> ReadMESA(track.mass, a)
      [] OTHER                      -> TrackRaise("UnboundLocalError", <<>>)

\* the arrays read before a file with the arrays of the file concatenated to
\* them, unless an exception has ended the function before the file
StackOn(before, this) ==
    IF before.exc # "none" THEN before
    ELSE [exc      |-> this.exc,
          rows     |-> before.rows \o this.rows,
          warnings |-> before.warnings \o this.warnings]

\* lines 689-1015: the six arrays after the first k files, one record per
\* element; the first exception ends the function
RECURSIVE Stacked(_, _, _, _)
Stacked(tracks, k, a, legacy) ==
    IF k = 0 THEN TrackDone(<<>>, <<>>)
    ELSE StackOn(Stacked(tracks, k - 1, a, legacy), ReadTrack(tracks[k], a, legacy))

\* np.isnan(mass_array + logg + age + age_cool + logteff + Mbol) for one
\* element: a nan in a field, or inf and -inf in two fields (mass_array and
\* the MS_age part of age are finite)
SumIsNan(row) ==
    LET kinds == {row.logg.kind, row.age.table.kind, row.age_cool.kind,
                  row.logteff.kind, row.Mbol.kind}
    IN  "nan" \in kinds \/ ("inf" \in kinds /\ "-inf" \in kinds)

\* a variant that keeps a cooling age of 1000 yr, age_cool >= 1000
SelectAtLeast(rows) ==
    [i \in DOMAIN rows |->
        /\ ~SumIsNan(rows[i])
        /\ \/ FGt(rows[i].age_cool, <<1000, 1>>)
           \/ rows[i].age_cool = FNum(<<1000, 1>>)]

\* lines 1017-1018
Select(rows) ==
    [i \in DOMAIN rows |-> ~SumIsNan(rows[i]) /\ FGt(rows[i].age_cool, <<1000, 1>>)]

\* a lifetime in yr times 1e-9
LifeGyr(life) ==
    IF life.kind = "pow10"
    THEN Pow10(SSub(life.num, SMulPow(SBig(900000000), life.den, 4)), life.den)
    ELSE [kind |-> "plain", num |-> life.num, den |-> life.den * 1000000000]

\* lines 1020-1021: age[select]*1e-9 and age_cool[select]*1e-9
InGyr(row) ==
    [row EXCEPT !.age = [table |-> FScale(row.age.table, <<1, 1000000000>>),
                         ms    |-> [i \in DOMAIN row.age.ms |-> LifeGyr(row.age.ms[i])]],
                !.age_cool = FScale(row.age_cool, <<1, 1000000000>>)]

\* lines 1017-1021 after the outcome st of the lines before them
Selected(st) ==
    LET kept == Compress(st.rows, Select(st.rows))
    IN  IF st.exc # "none" THEN Raise(st.exc, st.warnings)
        ELSE DoneRows([i \in DOMAIN kept |-> InGyr(kept[i])], st.warnings)

\* lines 689-1015 for the files to read
StackedAll(files, a, legacy) == Stacked(files, Len(files), a, legacy)

read_cooling_tracks(a, legacy) == Selected(StackedAll(Tracks(a), a, legacy))

-----------------------------------------------------------------------------
(* Python strings, src/__init__.py 583-587 *)

\* A str is the sequence of its characters; Str names the literals of the
\* model by their text.
Str(s) ==
    CASE s = "" -> <<>>
      [] s = "-" -> <<"-">>
      [] s = "Mbol" -> <<"M", "b", "o", "l">>
      [] s = "logteff" -> <<"l", "o", "g", "t", "e", "f", "f">>
      [] s = "logg" -> <<"l", "o", "g", "g">>
      [] s = "_Mag" -> <<"_", "M", "a", "g">>
      [] s = "_Mag - Mbol" -> <<"_", "M", "a", "g", " ", "-", " ", "M", "b", "o", "l">>
      [] s = "_Mag - " -> <<"_", "M", "a", "g", " ", "-", " ">>
      [] s = "-Mbol" -> <<"-", "M", "b", "o", "l">>
      [] s = "bp" -> <<"b", "p">>
      [] s = "rp" -> <<"r", "p">>
      [] s = "G" -> <<"G">>
      [] s = "Su" -> <<"S", "u">>
      [] s = "Sg" -> <<"S", "g">>
      [] s = "Sr" -> <<"S", "r">>
      [] s = "Si" -> <<"S", "i">>
      [] s = "Sz" -> <<"S", "z">>
      [] s = "Pg" -> <<"P", "g">>
      [] s = "Pr" -> <<"P", "r">>
      [] s = "Pi" -> <<"P", "i">>
      [] s = "Pz" -> <<"P", "z">>
      [] s = "Py" -> <<"P", "y">>
      [] s = "U" -> <<"U">>
      [] s = "B" -> <<"B">>
      [] s = "V" -> <<"V">>
      [] s = "R" -> <<"R">>
      [] s = "I" -> <<"I">>
      [] s = "J" -> <<"J">>
      [] s = "H" -> <<"H">>
      [] s = "Ks" -> <<"K", "s">>
      [] s = "MY" -> <<"M", "Y">>
      [] s = "MJ" -> <<"M", "J">>
      [] s = "MH" -> <<"M", "H">>
      [] s = "MK" -> <<"M", "K">>
      [] s = "W1" -> <<"W", "1">>
      [] s = "W2" -> <<"W", "2">>
      [] s = "W3" -> <<"W", "3">>
      [] s = "W4" -> <<"W", "4">>
      [] s = "S36" -> <<"S", "3", "6">>
      [] s = "S45" -> <<"S", "4", "5">>
      [] s = "S58" -> <<"S", "5", "8">>
      [] s = "S80" -> <<"S", "8", "0">>
      [] s = "FUV" -> <<"F", "U", "V">>
      [] s = "NUV" -> <<"N", "U", "V">>
      [] s = "u" -> <<"u">>
      [] s = "g" -> <<"g">>
      [] s = "r" -> <<"r">>
      [] s = "i" -> <<"i">>
      [] s = "z" -> <<"z">>
      [] s = "K" -> <<"K">>
      [] s = "bp-rp" -> <<"b", "p", "-", "r", "p">>
      [] s = "G-Mbol" -> <<"G", "-", "M", "b", "o", "l">>
      [] s = "Mbol-G" -> <<"M", "b", "o", "l", "-", "G">>
      [] s = "G-Mbolx" -> <<"G", "-", "M", "b", "o", "l", "x">>
      [] s = "G-x" -> <<"G", "-", "x">>
      [] s = "x-G" -> <<"x", "-", "G">>
      [] s = "G-" -> <<"G", "-">>
      [] s = "-G" -> <<"-", "G">>
      [] s = "G-bp-rp" -> <<"G", "-", "b", "p", "-", "r", "p">>
      [] s = "G-logg-rp" -> <<"G", "-", "l", "o", "g", "g", "-", "r", "p">>
      [] s = "G-3" -> <<"G", "-", "3">>
      [] s = "G-S36" -> <<"G", "-", "S", "3", "6">>
      [] s = "bprp" -> <<"b", "p", "r", "p">>
      [] s = "bp-rp-Mbol" -> <<"b", "p", "-", "r", "p", "-", "M", "b", "o", "l">>
      [] s = "G--rp" -> <<"G", "-", "-", "r", "p">>
      [] s = "G-K" -> <<"G", "-", "K">>
      [] s = "G-Ks" -> <<"G", "-", "K", "s">>
      [] s = "u-g" -> <<"u", "-", "g">>
      [] s = "G-G" -> <<"G", "-", "G">>
      [] s = "bp-G" -> <<"b", "p", "-", "G">>
      [] s = "rp-G" -> <<"r", "p", "-", "G">>
      [] s = "u-G" -> <<"u", "-", "G">>
      [] s = "g-G" -> <<"g", "-", "G">>
      [] s = "r-G" -> <<"r", "-", "G">>
      [] s = "i-G" -> <<"i", "-", "G">>
      [] s = "z-G" -> <<"z", "-", "G">>
      [] s = "U-G" -> <<"U", "-", "G">>
      [] s = "B-G" -> <<"B", "-", "G">>
      [] s = "V-G" -> <<"V", "-", "G">>
      [] s = "R-G" -> <<"R", "-", "G">>
      [] s = "I-G" -> <<"I", "-", "G">>
      [] s = "J-G" -> <<"J", "-", "G">>
      [] s = "H-G" -> <<"H", "-", "G">>
      [] s = "K-G" -> <<"K", "-", "G">>
      [] s = "G-bp" -> <<"G", "-", "b", "p">>
      [] s = "G-rp" -> <<"G", "-", "r", "p">>
      [] s = "G-u" -> <<"G", "-", "u">>
      [] s = "G-g" -> <<"G", "-", "g">>
      [] s = "G-r" -> <<"G", "-", "r">>
      [] s = "G-i" -> <<"G", "-", "i">>
      [] s = "G-z" -> <<"G", "-", "z">>
      [] s = "G-U" -> <<"G", "-", "U">>
      [] s = "G-B" -> <<"G", "-", "B">>
      [] s = "G-V" -> <<"G", "-", "V">>
      [] s = "G-R" -> <<"G", "-", "R">>
      [] s = "G-I" -> <<"G", "-", "I">>
      [] s = "G-J" -> <<"G", "-", "J">>
      [] s = "G-H" -> <<"G", "-", "H">>

Letters == {"a", "b", "c", "d", "e", "f", "g", "h", "i", "j", "k", "l", "m", "n",
            "o", "p", "q", "r", "s", "t", "u", "v", "w", "x", "y", "z",
            "A", "B", "C", "D", "E", "F", "G", "H", "I", "J", "K", "L", "M", "N",
            "O", "P", "Q", "R", "S", "T", "U", "V", "W", "X", "Y", "Z", "_"}
Digits  == {"0", "1", "2", "3", "4", "5", "6", "7", "8", "9"}

\* s.find(ch) for one character: the first index from 0, -1 if there is none
find(s, ch) ==
    IF \E i \in DOMAIN s : s[i] = ch
    THEN (CHOOSE i \in DOMAIN s : s[i] = ch /\ \A j \in 1..(i - 1) : s[j] # ch) - 1
    ELSE -1

\* s[:stop]: a negative stop counts from the end
SliceTo(s, stop) ==
    LET last == IF stop < 0 THEN Len(s) + stop ELSE stop
    IN  SubSeq(s, 1, IF last < 0 THEN 0 ELSE IF last > Len(s) THEN Len(s) ELSE last)

\* s[start:] for start >= 0
SliceFrom(s, start) == SubSeq(s, (IF start > Len(s) THEN Len(s) ELSE start) + 1, Len(s))

\* sub in s
Contains(s, sub) ==
    \E i \in 0..(Len(s) - Len(sub)) : SubSeq(s, i + 1, i + Len(sub)) = sub

\* the pieces of s between the occurrences of ch
RECURSIVE Split(_, _)
Split(s, ch) ==
    IF find(s, ch) = -1 THEN <<s>>
    ELSE <<SliceTo(s, find(s, ch))>> \o Split(SliceFrom(s, find(s, ch) + 1), ch)

\* s without the blanks at its ends
RECURSIVE Strip(_)
Strip(s) ==
    IF s = <<>> THEN s
    ELSE IF s[1] = " " THEN Strip(Tail(s))
    ELSE IF s[Len(s)] = " " THEN Strip(SubSeq(s, 1, Len(s) - 1))
    ELSE s

\* a Python identifier
Identifier(s) ==
    /\ s # <<>>
    /\ \A i \in DOMAIN s : s[i] \in Letters \cup Digits
    /\ s[1] \notin Digits

\* The operands of an expression made of names, '-' and blanks, each with its
\* sign: a '-' after an operand subtracts, a '-' before an operand negates.
\* terms are the stripped pieces between the '-'; sign is the sign of the
\* next operand.
RECURSIVE Operands(_, _, _)
Operands(terms, k, sign) ==
    IF k > Len(terms) THEN <<>>
    ELSE IF terms[k] = <<>> THEN Operands(terms, k + 1, -sign)
    ELSE <<[name |-> terms[k], sign |-> sign]>> \o Operands(terms, k + 1, -1)

\* eval(source) for a source made of names, '-' and blanks, with the names in
\* scope that are bound to arrays: SyntaxError before any name is looked up,
\* NameError for the first name that is not bound, else the signed operands
eval(source, scope) ==
    LET pieces == Split(source, "-")
        terms  == [i \in DOMAIN pieces |-> Strip(pieces[i])]
        ops    == Operands(terms, 1, 1)
    IN  IF terms[Len(terms)] = <<>>
           \/ \E i \in DOMAIN terms : terms[i] # <<>> /\ ~Identifier(terms[i])
        THEN [exc |-> "SyntaxError", operands |-> <<>>]
        ELSE IF \E i \in DOMAIN ops : ops[i].name \notin scope
        THEN [exc |-> "NameError", operands |-> <<>>]
        ELSE [exc |-> "none", operands |-> ops]

-----------------------------------------------------------------------------
(* interp_atm, src/__init__.py 374-590 *)

\* the passband arrays of lines 413-450, named <band>_Mag
Bands == <<"bp", "rp", "G", "Su", "Sg", "Sr", "Si", "Sz", "Pg", "Pr", "Pi", "Pz",
           "Py", "U", "B", "V", "R", "I", "J", "H", "Ks", "MY", "MJ", "MH", "MK",
           "W1", "W2", "W3", "W4", "S36", "S45", "S58", "S80", "FUV", "NUV">>

\* lines 479-517: the column of the tables an array is read from
ColumnOf(band) ==
    CASE band = "bp"  -> "G_BP"
      [] band = "rp"  -> "G_RP"
      [] band = "S36" -> "S3.6"
      [] band = "S45" -> "S4.5"
      [] band = "S58" -> "S5.8"
      [] band = "S80" -> "S8.0"
      [] OTHER        -> band

\* lines 463-469: the columns 1.108 is added to
Columns == <<"Mbol", "U", "B", "V", "R", "I", "J", "H", "Ks", "MY", "MJ", "MH", "MK",
             "W1", "W2", "W3", "W4", "S3.6", "S4.5", "S5.8", "S8.0", "Su", "Sg",
             "Sr", "Si", "Sz", "Pg", "Pr", "Pi", "Pz", "Py", "G", "G_BP", "G_RP",
             "FUV", "NUV">>

\* the number of rows line 460 copies, Atm_color[-51:]
table_95_rows == 51

\* The files Table_DA and Table_DB: one block of rows per logg, 8.0 then 9.0,
\* each of content.per_logg rows of Teff rising from 3000 K by content.step; a row
\* holds Teff, logg, M/Mo and the magnitude of every column, in thousandths
\* of a magnitude as the files print three decimals.  The magnitude of
\* column k falls with Teff and rises with logg, by a tenth more per dex in
\* the columns of odd k, so that a colour of two columns varies with logg.
TableLoggs == <<Dec(8, 1), Dec(9, 1)>>

Magnitude(k, Teff, logg) ==
    10 * k + 16000 - Teff + ((1000 + 100 * (k % 2)) * logg[1]) \div logg[2]

\* a row: mags holds the magnitudes in the order of Columns
AtmRow(Teff, logg, mass) ==
    [Teff |-> Teff, logg |-> logg, mass |-> mass,
     mags |-> [k \in DOMAIN Columns |-> Magnitude(k, Teff, logg)]]

\* row[column]
Cell(row, column) ==
    Rat(row.mags[CHOOSE k \in DOMAIN Columns : Columns[k] = column], 1000)

AtmTable(content) ==
    AsArray([i \in 1..(Len(TableLoggs) * content.per_logg) |->
                LET b == ((i - 1) \div content.per_logg) + 1
                    j == ((i - 1) % content.per_logg) + 1
                IN  AtmRow(3000 + content.step * (j - 1), TableLoggs[b],
                           RatSub(TableLoggs[b], Dec(75, 10)))])

\* The files Table_Mass_<mass>_<suffix>, lines 520-523: two rows each, of
\* 10000 K and 12000 K, of a logg that rises with the mass
MassTables == <<2, 3, 4, 5, 6, 7, 8, 9, 10, 12>>

MassTable(mass) ==
    AsArray([j \in 1..2 |-> AtmRow(8000 + 2000 * j, RatAdd(Dec(705, 100), mass), mass)])

\* Teff > 10**logteff_min for logteff_min = p/q with q = 1 or 2
Hotter(Teff, logteff_min) ==
    IF logteff_min[2] = 1 THEN Teff > IntPow10(logteff_min[1])
    ELSE Teff * Teff > IntPow10(logteff_min[1])

\* lines 458-459, 472-473, 528-529: the rows with Teff > 10**logteff_logg_grid[0]
Hot(table, logteff_min) ==
    Compress(table, [i \in DOMAIN table |-> Hotter(table[i].Teff, logteff_min)])

\* Atm_color[-n:]: the last n rows, every row of a shorter table
LastRows(table, n) ==
    SubSeq(table, (IF Len(table) > n THEN Len(table) - n ELSE 0) + 1, Len(table))

\* lines 461-470: one row of table_95
Row95(row) ==
    [row EXCEPT !.logg = Dec(95, 10), !.mass = Dec(1366, 1000),
                !.mags = [k \in DOMAIN Columns |-> row.mags[k] + 1108]]

\* lines 460-470
table_95(Atm_color) ==
    LET copy == LastRows(Atm_color, table_95_rows)
    IN  AsArray([i \in DOMAIN copy |-> Row95(copy[i])])

\* lines 457-473: the rows of Table_<suffix> the arrays are read from
Stacked95(selected, logteff_min) == Hot(selected \o table_95(selected), logteff_min)

\* lines 520-555: the rows read from the tables Table_Mass_*
RECURSIVE MassRows(_, _)
MassRows(k, logteff_min) ==
    IF k = 0 THEN <<>>
    ELSE MassRows(k - 1, logteff_min) \o Hot(MassTable(Rat(MassTables[k], 10)), logteff_min)

\* the names eval finds bound to an array: the local arrays of lines 410-450
Scope ==
    {Str(Bands[k]) \o Str("_Mag") : k \in DOMAIN Bands}
        \cup {Str("Mbol"), Str("logteff"), Str("logg")}

\* the array a name of Scope is bound to: logteff, logg, or a column of the
\* tables
ArrayOf(name) ==
    CASE name = Str("Mbol")    -> "Mbol"
      [] name = Str("logg")    -> "logg"
      [] name = Str("logteff") -> "logteff"
      [] OTHER -> ColumnOf(Bands[CHOOSE k \in DOMAIN Bands :
                                    Str(Bands[k]) \o Str("_Mag") = name])

\* the operands of the expression with the arrays their names are bound to
Arrays(operands) ==
    AsArray([k \in DOMAIN operands |->
                [sign |-> operands[k].sign, array |-> ArrayOf(operands[k].name)]])

\* the element of a local array read from a row
Element(array, row) ==
    CASE array = "logg" -> row.logg
      [] array = "logteff" /\ IsPow10(<<row.Teff, 1>>) ->
            <<Log10Exact(<<row.Teff, 1>>), 1>>
      [] array \notin {"logg", "logteff"} -> Cell(row, array)

\* the element of z for a row: the signed sum of the operands
RECURSIVE ZOf(_, _, _)
ZOf(arrays, k, row) ==
    IF k = 0 THEN <<0, 1>>
    ELSE IF arrays[k].sign = 1
    THEN RatAdd(ZOf(arrays, k - 1, row), Element(arrays[k].array, row))
    ELSE RatSub(ZOf(arrays, k - 1, row), Element(arrays[k].array, row))

\* lines 576-587: the points (Teff, logg) of the rows with their z
AtmPoints(rows, arrays) ==
    AsArray([i \in DOMAIN rows |->
                [Teff |-> rows[i].Teff, logg |-> rows[i].logg,
                 z |-> ZOf(arrays, Len(arrays), rows[i])]])

\* lines 583-587: the source eval is given
ColorSource(color) ==
    LET division == find(color, "-")
    IN  IF Contains(color, Str("-Mbol"))
        THEN SliceTo(color, division) \o Str("_Mag - Mbol")
        ELSE SliceTo(color, division) \o Str("_Mag - ")
                 \o SliceFrom(color, division + 1) \o Str("_Mag")

\* Qhull needs three points that are not on one line; rows of one Teff and
\* two loggs beside a row of another Teff are not
Spans(rows) ==
    \E i, j, k \in DOMAIN rows :
        /\ rows[i].Teff = rows[j].Teff
        /\ rows[i].logg # rows[j].logg
        /\ rows[k].Teff # rows[i].Teff

\* interp_atm ends with the exception e
AtmRaise(e) == [exc |-> e, atm |-> NoAtm, interp |-> NoInterp]

\* the outcome r of interp_atm as the outcome of a call
AtmEnd(r) == [Raise(r.exc, <<>>) EXCEPT !.atm = r.atm, !.interp = r.interp]

\* lines 576-581, the nested interp(x, y, z) with the default
\* interp_type_atm: griddata(np.array((x, y)).T, z, (grid_x, grid_y),
\* method='linear'), whose rescale is the library default False, then
\* interpolate_2d(x, y, z, 'linear'), which passes rescale=True (line 370)
AtmBuilt(table, operands, points) ==
    [exc    |-> "none",
     atm    |-> [table |-> table, operands |-> operands, points |-> points],
     interp |-> [selected |-> <<>>,
                 grid     |-> Build(points, "linear", FALSE),
                 func     |-> Build(points, "linear", TRUE)]]

\* lines 576-589 for the rows read and the value of eval
AtmInterp(table, rows, z) ==
    IF z.exc # "none" THEN AtmRaise(z.exc)
    ELSE IF ~Spans(rows) THEN AtmRaise("QhullError")
    ELSE AtmBuilt(table, z.operands, AtmPoints(rows, Arrays(z.operands)))

\* lines 457-589 for a bound suffix, table the rows of Table_<suffix> after
\* line 473
AtmRead(table, color, logteff_min) ==
    AtmInterp(table, table \o MassRows(Len(MassTables), logteff_min),
              eval(ColorSource(color), Scope))

\* interp_atm(atm_type, color, logteff_logg_grid) with the default
\* interp_type_atm, color the characters of the argument: suffix is bound for
\* 'H' and 'He' only
interp_atm(atm_type, color, logteff_min, content) ==
    IF atm_type \notin {"H", "He"} THEN AtmRaise("UnboundLocalError")
    ELSE AtmRead(Stacked95(Hot(AtmTable(content), logteff_min), logteff_min),
                 color, logteff_min)

-----------------------------------------------------------------------------
(* load_model, src/__init__.py 1158-1476 *)

\* the sign of a float that is not nan: -1, 0 or 1
FSign(a) ==
    CASE a.kind = "inf"  -> 1
      [] a.kind = "-inf" -> -1
      [] a.kind = "num"  -> IF a.v[1] > 0 THEN 1 ELSE IF a.v[1] < 0 THEN -1 ELSE 0

FSigned(sign) == IF sign < 0 THEN FNegInf ELSE FInf

\* a * b: inf * 0 is nan
FMul(a, b) ==
    IF a.kind = "nan" \/ b.kind = "nan" THEN FNan
    ELSE IF a.kind = "num" /\ b.kind = "num" THEN FNum(RatMul(a.v, b.v))
    ELSE IF FSign(a) * FSign(b) = 0 THEN FNan
    ELSE FSigned(FSign(a) * FSign(b))

\* a / b: 0/0 and inf/inf are nan, x/0 is inf with the sign of x, x/inf is 0
FDiv(a, b) ==
    IF a.kind = "nan" \/ b.kind = "nan" THEN FNan
    ELSE IF a.kind = "num" /\ b.kind = "num"
    THEN IF b.v[1] > 0 THEN FNum(RatDiv(a.v, b.v))
         ELSE IF b.v[1] < 0 THEN FNum(RatDiv(<<-a.v[1], a.v[2]>>, <<-b.v[1], b.v[2]>>))
         ELSE IF a.v[1] = 0 THEN FNan ELSE FSigned(FSign(a))
    ELSE IF a.kind # "num" /\ b.kind # "num" THEN FNan
    ELSE IF a.kind = "num" THEN FNum(<<0, 1>>)
    ELSE FSigned(FSign(a) * (IF FSign(b) < 0 THEN -1 ELSE 1))

\* a < q and a > q for a rational q: False for nan
FLt(a, q) ==
    CASE a.kind = "num"  -> RatLt(a.v, q)
      [] a.kind = "-inf" -> TRUE
      [] OTHER           -> FALSE

\* lines 1327-1358: the aliases of the names
LowAlias(name) ==
    CASE name = "f"  -> "Fontaine2001"
      [] name = "ft" -> "Fontaine2001_thin"
      [] OTHER       -> name
MiddleAlias(name) ==
    CASE name = "r001"  -> "Renedo2010_001"
      [] name = "r0001" -> "Renedo2010_0001"
      [] name = "f"     -> "Fontaine2001"
      [] name = "ft"    -> "Fontaine2001_thin"
      [] name = "c"     -> "Camisassa2017"
      [] name = "b"     -> "BaSTI"
      [] name = "bn"    -> "BaSTI_nosep"
      [] OTHER          -> name
HighAlias(name) ==
    CASE name = "f"  -> "Fontaine2001"
      [] name = "ft" -> "Fontaine2001_thin"
      [] name = "b"  -> "BaSTI"
      [] name = "bn" -> "BaSTI_nosep"
      [] name = "m"  -> "MESA"
      [] name = "o"  -> "ONe"
      [] OTHER       -> name

\* lines 1359-1370
model_names == {"", "Fontaine2001", "Fontaine2001_thin", "Renedo2010_001",
                "Renedo2010_0001", "Camisassa2017", "BaSTI", "BaSTI_nosep", "MESA",
                "ONe"}

\* lines 1371-1376: what the validation prints
Printed(a) ==
    (IF a.low \notin model_names \/ a.middle \notin model_names
        \/ a.high \notin model_names
     THEN <<"please check the model names.">> ELSE <<>>)
        \o (IF a.atm_type \notin {"H", "He"}
            THEN <<"please enter either 'H' or 'He' for atm_type.">> ELSE <<>>)

\* The value an interpolator built by interp_atm returns for one point: the z
\* of the table row at that point, nan where a coordinate is not finite and
\* where no row of the table is at the point (the points the model asks for
\* are rows of the table or lie outside of it)
AtmAt(points, Teff, logg) ==
    LET at == {i \in DOMAIN points : points[i].Teff = Teff /\ points[i].logg = logg}
    IN  IF at # {} THEN FNum(points[CHOOSE i \in at : \A j \in at : i <= j].z)
        ELSE FNan

AtmCall(atm, logteff, logg) ==
    IF logteff.kind = "num" /\ logg.kind = "num" /\ TenTo(logteff).v[2] = 1
    THEN AtmAt(atm.points, TenTo(logteff).v[1], logg.v)
    ELSE FNan

\* lines 1412-1413: a track point with its Mag and color
Photometry(row, color_atm, BC_atm) ==
    [mass |-> row.mass, logg |-> row.logg, age |-> row.age, age_cool |-> row.age_cool,
     logteff |-> row.logteff, Mbol |-> row.Mbol,
     color |-> AtmCall(color_atm, row.logteff, row.logg),
     Mag   |-> FAdd(AtmCall(BC_atm, row.logteff, row.logg), row.Mbol)]

\* a variant whose interior elements are k1 + k2
rate_invSum(age_cool, color) ==
    LET n == Len(age_cool)
        k1(i) == FDiv(FSub(age_cool[i + 1], age_cool[i]), FSub(color[i + 1], color[i]))
        k2(i) == FDiv(FSub(age_cool[i + 2], age_cool[i + 1]),
                      FSub(color[i + 2], color[i + 1]))
    IN  <<FNum(<<1, 1>>)>>
            \o [i \in 1..(IF n > 2 THEN n - 2 ELSE 0) |-> FAdd(k1(i), k2(i))]
            \o <<FNum(<<1, 1>>)>>

\* lines 1416-1419: element i of [1:-1] is element i + 1 of the array, of
\* [:-2] element i and of [2:] element i + 2, each slice of max(n - 2, 0)
\* elements
rate_inv(age_cool, color) ==
    LET n == Len(age_cool)
        k1(i) == FDiv(FSub(age_cool[i + 1], age_cool[i]), FSub(color[i + 1], color[i]))
        k2(i) == FDiv(FSub(age_cool[i + 2], age_cool[i + 1]),
                      FSub(color[i + 2], color[i + 1]))
        k(i)  == FAdd(k1(i), FDiv(FMul(FSub(color[i + 1], color[i]),
                                       FSub(k1(i), k2(i))),
                                  FSub(color[i], color[i + 2])))
    IN  <<FNum(<<1, 1>>)>>
            \o [i \in 1..(IF n > 2 THEN n - 2 ELSE 0) |-> k(i)]
            \o <<FNum(<<1, 1>>)>>

\* HR_grid, the default of line 1163: (xmin, xmax, ymin, ymax)
HR_grid == [xmin |-> Dec(-6, 10), xmax |-> Dec(15, 10), ymin |-> Dec(8, 1),
            ymax |-> Dec(18, 1)]

\* three of the points (x, y) are not on one line
SpansPlane(S) ==
    \E p, q, r \in S :
        RatSub(RatMul(RatSub(q[1], p[1]), RatSub(r[2], p[2])),
               RatMul(RatSub(q[2], p[2]), RatSub(r[1], p[1]))) # <<0, 1>>

\* griddata and interpolate_2d on the points S with the linear method: no
\* point is a ValueError, points of one line a QhullError, and a point that
\* is not finite a ValueError
Triangulate(S, finite) ==
    IF S = {} THEN "ValueError"
    ELSE IF ~finite THEN "ValueError"
    ELSE IF SpansPlane(S) THEN "none" ELSE "QhullError"

\* a variant that keeps the rows on the boundary of the rectangle
HRKeepClosed(color, Mag, para, grid) ==
    /\ "nan" \notin {color.kind, Mag.kind, para}
    /\ ~({"inf", "-inf"} \subseteq {color.kind, Mag.kind, para})
    /\ ~FLt(Mag, grid.ymin) /\ ~FGt(Mag, grid.ymax)
    /\ ~FLt(color, grid.xmin) /\ ~FGt(color, grid.xmax)

\* lines 1059-1062: an element of selected, for the kind para of WD_para:
\* the sum color + Mag + WD_para is not nan and the point is inside of grid
HRKeep(color, Mag, para, grid) ==
    /\ "nan" \notin {color.kind, Mag.kind, para}
    /\ ~({"inf", "-inf"} \subseteq {color.kind, Mag.kind, para})
    /\ FGt(Mag, grid.ymin) /\ FLt(Mag, grid.ymax)
    /\ FGt(color, grid.xmin) /\ FLt(color, grid.xmax)

\* lines 1059-1062: the selection of interp_HR_to_para with the default
\* HR_grid, for the kinds of WD_para
HRSelected(points, para) ==
    {i \in DOMAIN points : HRKeep(points[i].color, points[i].Mag, para[i], HR_grid)}

\* lines 1024-1074: interp_HR_to_para(color, Mag, WD_para) ends with this
\* exception, "none" if it returns; arrays of two lengths do not add
interp_HR_to_para(points, para) ==
    IF Len(para) # Len(points)
    THEN IF 1 \in {Len(para), Len(points)} THEN "IndexError" ELSE "ValueError"
    ELSE Triangulate({<<points[i].color.v, points[i].Mag.v>> :
                         i \in HRSelected(points, para)}, TRUE)

\* the kind of the total age of a row: the table part plus finite lifetimes
AgeKind(row) == row.age.table.kind

\* lines 1423-1436: the seven calls of interp_HR_to_para, in order; the
\* first exception ends load_model
HRMappings(points, rate) ==
    LET paras == <<[i \in DOMAIN points |-> "num"],
                   [i \in DOMAIN points |-> points[i].logg.kind],
                   [i \in DOMAIN points |-> AgeKind(points[i])],
                   [i \in DOMAIN points |-> points[i].age_cool.kind],
                   [i \in DOMAIN points |-> points[i].logteff.kind],
                   [i \in DOMAIN points |-> points[i].Mbol.kind],
                   [i \in DOMAIN rate |-> rate[i].kind]>>
        ends  == [k \in DOMAIN paras |-> interp_HR_to_para(points, paras[k])]
        bad   == {k \in DOMAIN ends : ends[k] # "none"}
    IN  IF bad = {} THEN "none" ELSE ends[CHOOSE k \in bad : \A l \in bad : k <= l]

\* a variant that hands logg as WD_para, as the call of lines 1425-1426
HR_to_massLogg(points) ==
    {<<points[i].color.v, points[i].Mag.v, points[i].logg.v>> :
        i \in HRSelected(points, [j \in DOMAIN points |-> "num"])}

\* lines 1423-1424, 1065-1071: the data (color, Mag, mass) of the selected
\* rows, on which interpolate_2d builds HR_to_mass
HR_to_mass(points) ==
    {<<points[i].color.v, points[i].Mag.v, points[i].mass>> :
        i \in HRSelected(points, [j \in DOMAIN points |-> "num"])}

\* lines 365-370: the values a linear interpolator on data can return at
\* (x, y), a point of data: the value of the vertex of the triangulation
\* there, which is one of the data points with these coordinates (of
\* coincident points the library keeps one as the vertex)
AtVertex(data, x, y) == {d[3] : d \in {e \in data : e[1] = x /\ e[2] = y}}

\* a variant that keeps every row without a nan
XYKeepNoNan(x, y, z) == "nan" \notin {x.kind, y.kind, z.kind}

\* a variant that looks at x and y only
XYKeepXY(x, y, z) ==
    /\ "nan" \notin {x.kind, y.kind}
    /\ ~({"inf", "-inf"} \subseteq {x.kind, y.kind})

\* lines 1106 and 1141: an element of selected = ~np.isnan(x + y + z); the
\* sum is nan where a term is nan and where inf meets -inf
XYKeep(x, y, z) ==
    /\ "nan" \notin {x.kind, y.kind, z.kind}
    /\ ~({"inf", "-inf"} \subseteq {x.kind, y.kind, z.kind})

\* lines 1119-1147: interp_xy_z_func(x, y, z) over the rows whose x + y + z
\* is not nan ends with this exception, "none" if it returns
interp_xy_z_func(xs, ys, zs) ==
    LET selected == {i \in DOMAIN xs : XYKeep(xs[i], ys[i], zs[i])}
    IN  Triangulate({<<xs[i].v, ys[i].v>> : i \in selected},
                    \A i \in selected : xs[i].kind = "num" /\ ys[i].kind = "num")

\* The three functions called on their own, on rows [x, y, z] of three
\* arrays of one length (color, Mag and WD_para for interp_HR_to_para), with
\* their whole outcome: the exception, the mask selected, and what griddata
\* and interpolate_2d were given.  method is 'linear', 'cubic' or a name the
\* library does not know.

InterpRaise(e, mask) ==
    [exc |-> e, interp |-> [selected |-> mask, grid |-> NoBuild, func |-> NoBuild]]

\* the library triangulates the points (x, y) of the rows
TriangulateRows(rows) ==
    Triangulate({<<rows[i].x.v, rows[i].y.v>> : i \in DOMAIN rows},
                \A i \in DOMAIN rows : rows[i].x.kind = "num" /\ rows[i].y.kind = "num")

\* lines 365-370, 1065-1071, 1108-1113: griddata(..., method=interp_type,
\* rescale=True) on the selected rows, then interpolate_2d on the same rows
GridAndFunc(selected, mask, method, e) ==
    IF method \notin {"linear", "cubic"} THEN InterpRaise("ValueError", mask)
    ELSE IF e # "none" THEN InterpRaise(e, mask)
    ELSE [exc |-> "none",
          interp |-> [selected |-> mask,
                      grid |-> Build(selected, method, TRUE),
                      func |-> Build(selected, method, TRUE)]]

\* lines 365-370, 1143-1144: interpolate_2d alone, interpolator unbound for
\* a method that is neither 'linear' nor 'cubic'
FuncOnly(selected, mask, method, e) ==
    IF method \notin {"linear", "cubic"} THEN InterpRaise("UnboundLocalError", mask)
    ELSE IF e # "none" THEN InterpRaise(e, mask)
    ELSE [exc |-> "none",
          interp |-> [selected |-> mask, grid |-> NoBuild,
                      func |-> Build(selected, method, TRUE)]]

\* rows[mask] for interpolation
InterpOn(rows, mask, method, with_grid) ==
    IF with_grid
    THEN GridAndFunc(Compress(rows, mask), mask, method,
                     TriangulateRows(Compress(rows, mask)))
    ELSE FuncOnly(Compress(rows, mask), mask, method,
                  TriangulateRows(Compress(rows, mask)))

\* lines 1077-1116: interp_xy_z(x, y, z, xy_grid, interp_type)
interp_xy_z(rows, method) ==
    InterpOn(rows, AsArray([i \in DOMAIN rows |->
                               XYKeep(rows[i].x, rows[i].y, rows[i].z)]),
             method, TRUE)

\* lines 1119-1147: interp_xy_z_func(x, y, z, interp_type) with its whole
\* outcome
interp_xy_z_funcRows(rows, method) ==
    InterpOn(rows, AsArray([i \in DOMAIN rows |->
                               XYKeep(rows[i].x, rows[i].y, rows[i].z)]),
             method, FALSE)

\* lines 1024-1074: interp_HR_to_para(color, Mag, WD_para, HR_grid,
\* interp_type) with its whole outcome, x the color and y the Mag
interp_HR_to_paraRows(rows, grid, method) ==
    InterpOn(rows, AsArray([i \in DOMAIN rows |->
                               HRKeep(rows[i].x, rows[i].y, rows[i].z.kind, grid)]),
             method, TRUE)

\* lines 1437-1440: m_agecool_to_color and m_agecool_to_Mag
AgeCoolMappings(points) ==
    LET xs == [i \in DOMAIN points |-> FNum(points[i].mass)]
        ys == [i \in DOMAIN points |-> points[i].age_cool]
        c  == interp_xy_z_func(xs, ys, [i \in DOMAIN points |-> points[i].color])
    IN  IF c # "none" THEN c
        ELSE interp_xy_z_func(xs, ys, [i \in DOMAIN points |-> points[i].Mag])

\* load_model ends: the exception, what it has printed, the last stage it
\* has completed, and the arrays it has built by then
LoadEnd(e, printed, stage, points, rate) ==
    [exc |-> e, value |-> <<>>, age |-> <<>>, rows |-> <<>>, shape |-> <<>>,
     warnings |-> <<>>, atm |-> NoAtm,
     bundle |-> [printed |-> printed, stage |-> stage, points |-> points,
                 rate_inv |-> rate, atm |-> <<>>, logg_func |-> "", rows |-> <<>>],
     interp |-> NoInterp]

\* lines 1422-1476 for the arrays built and the outcomes of the mappings
LoadMappings(printed, points, rate, hr, xy) ==
    IF hr # "none" THEN LoadEnd(hr, printed, "cool_rate", points, rate)
    ELSE IF xy # "none" THEN LoadEnd(xy, printed, "HR", points, rate)
    ELSE LoadEnd("none", printed, "returned", points, rate)

\* lines 1422-1476 for the track points and the array 'cool_rate^-1'
LoadRate(printed, points, rate) ==
    LoadMappings(printed, points, rate, HRMappings(points, rate), AgeCoolMappings(points))

\* lines 1415-1476 for the track points with their Mag and color
LoadPoints(printed, points) ==
    LoadRate(printed, points,
             AsArray(rate_inv([i \in DOMAIN points |-> points[i].age_cool],
                              [i \in DOMAIN points |-> points[i].color])))

\* lines 1411-1476 for the outcome of read_cooling_tracks
LoadTracks(printed, color_atm, BC_atm, tracks) ==
    IF tracks.exc # "none" THEN LoadEnd(tracks.exc, printed, "logg_func", <<>>, <<>>)
    ELSE LoadPoints(printed,
                    AsArray([i \in DOMAIN tracks.rows |->
                                Photometry(tracks.rows[i], color_atm, BC_atm)]))

\* lines 1391-1399: the Fontaine2001 tracks read with the defaults of
\* read_cooling_tracks and the mapping (logteff, mass) -> logg built on them
FontaineLoggFunc(fontaine) ==
    IF fontaine.exc # "none" THEN fontaine.exc
    ELSE interp_xy_z_func([i \in DOMAIN fontaine.rows |-> fontaine.rows[i].logteff],
                          [i \in DOMAIN fontaine.rows |-> FNum(fontaine.rows[i].mass)],
                          [i \in DOMAIN fontaine.rows |-> fontaine.rows[i].logg])

FontaineArgs(a) ==
    [a EXCEPT !.low = "Fontaine2001", !.middle = "Fontaine2001",
              !.high = "Fontaine2001", !.logg_func = "None",
              !.for_comparison = FALSE, !.ms_model = "Choi16", !.coeff = NoCoeff,
              !.interpolator = "None", !.model = "Cummings18",
              !.fill_value = NumFill(Dec(0, 1)), !.mass = NoMass]

\* lines 1389-1476 for the two mappings of interp_atm and the outcome lf of
\* the logg_func stage
LoadLogg(a, legacy, printed, color_atm, BC_atm, lf) ==
    IF lf # "none" THEN LoadEnd(lf, printed, "atm", <<>>, <<>>)
    ELSE LoadTracks(printed, color_atm, BC_atm,
                    read_cooling_tracks(
                        [a EXCEPT !.logg_func =
                            IF HasBaSTI(a.middle) \/ HasBaSTI(a.high)
                            THEN "interpolator" ELSE "None"], legacy))

\* lines 1379-1476 for the outcomes of the two calls of interp_atm
LoadAtm(a, legacy, printed, color_atm, BC_atm) ==
    IF color_atm.exc # "none" THEN LoadEnd(color_atm.exc, printed, "validated", <<>>, <<>>)
    ELSE IF BC_atm.exc # "none" THEN LoadEnd(BC_atm.exc, printed, "validated", <<>>, <<>>)
    ELSE LoadLogg(a, legacy, printed, color_atm.atm, BC_atm.atm,
                  IF HasBaSTI(a.middle) \/ HasBaSTI(a.high)
                  THEN FontaineLoggFunc(read_cooling_tracks(FontaineArgs(a), legacy))
                  ELSE "none")

\* lines 1327-1476 with the names after the aliases
LoadNamed(a, legacy) ==
    LoadAtm(a, legacy, Printed(a),
            interp_atm(a.atm_type, Str(a.HR_bands[1]), a.logteff_min, a.atm_content),
            interp_atm(a.atm_type, Str(a.HR_bands[2]) \o Str("-Mbol"), a.logteff_min,
                       a.atm_content))

\* load_model(low_mass_model, middle_mass_model, high_mass_model, atm_type,
\*            HR_bands, ...), the other arguments as in a
load_model(a, legacy) ==
    LoadNamed([a EXCEPT !.low = LowAlias(a.low), !.middle = MiddleAlias(a.middle),
                        !.high = HighAlias(a.high)], legacy)

-----------------------------------------------------------------------------
(* The arguments the model calls the functions with *)

\* WD masses: below every fitted domain, the Cummings18 end anchors, a domain
\* edge of Catalan08, both pieces of the two-part relations, above every domain
Masses == {Dec(1, 10), Dec(19, 100), Dec(5741, 10000), Dec(7, 10), Dec(9, 10),
           Dec(14, 10), Dec(15, 10)}

RECURSIVE SeqsOf(_, _)
SeqsOf(S, n) ==
    IF n = 0 THEN {<<>>} ELSE {Append(q, x) : q \in SeqsOf(S, n - 1), x \in S}

\* the shapes an input of n elements comes in: 0-d, 1-D and a 2-D column
ShapesOf(n) == {<<n>>, <<n, 1>>} \cup (IF n = 1 THEN {<<>>} ELSE {})

ArraysOf(S) ==
    UNION {{[shape |-> sh, data |-> d] : sh \in ShapesOf(n), d \in SeqsOf(S, n)} :
           n \in 1..MaxLen}

IFMRModels == {"Catalan08", "Catalan08b", "Salaris09", "Salaris09b", "Williams09",
               "Kalirai09", "Kalirai09b", "Cummings18", "ElBadry18", "manual"}

FillValues == {NumFill(Dec(0, 1)), NumFill(Dec(12, 1)), NanFill,
               StrFill("extrapolate"), StrFill("nearest"), NoneFill,
               ListFill(<<Dec(0, 1)>>), ListFill(<<Dec(1, 1), Dec(12, 1)>>),
               ListFill(<<Dec(0, 1), Dec(1, 1), Dec(12, 1)>>)}

\* mass for 'manual': None, (m_i, m_f) of one length, of different lengths
ManualMasses == {NoMass,
                 <<<<Dec(1, 1), Dec(8, 1)>>, <<Dec(5, 10), Dec(13, 10)>>>>,
                 <<<<Dec(1, 1), Dec(4, 1), Dec(8, 1)>>, <<Dec(5, 10), Dec(13, 10)>>>>}

MassesFor(model) == IF model = "manual" THEN ManualMasses ELSE {NoMass}

\* MS_age: a mass below the Catalan08 domain, the mass Catalan08 maps to the
\* Choi16 switch point 2.11, a mass inside and a mass above the domain
MSMasses == {Dec(1, 10), Dec(63087, 100000), Dec(9, 10), Dec(15, 10)}

MSArraysOf(S) ==
    {Scalar0d(x) : x \in S} \cup UNION {{Array1d(d) : d \in SeqsOf(S, n)} : n \in 1..MaxLen}

MSModels == {"Choi16", "manual_poly", "manual_interpolator"}

CoeffsFor(model) ==
    IF model = "manual_poly"
    THEN {NoCoeff, Coeffs(<<Dec(3, 1)>>), Coeffs(<<Dec(1, 1), Dec(2, 1)>>)}
    ELSE {NoCoeff}

InterpolatorsFor(model) ==
    IF model = "manual_interpolator" THEN {"None", "identity"} ELSE {"None"}

MSIFMRModels == {"Catalan08", "Salaris09b", "Cummings18", "Bogus"}

MSFillValues == {NumFill(Dec(0, 1)), NumFill(Dec(211, 100)), NumFill(Dec(3, 1)),
                 StrFill("extrapolate"), ListFill(<<Dec(211, 100), Dec(3, 1)>>),
                 NoneFill, ListFill(<<Dec(1, 1), Dec(2, 1), Dec(3, 1)>>)}

\* read_cooling_tracks: the selections of load_model's list, and 'PG'
LowModels    == {"", "Fontaine2001", "Fontaine2001_thin"}
MiddleModels == {"", "Fontaine2001", "Fontaine2001_thin", "Renedo2010_001",
                 "Renedo2010_0001", "Camisassa2017", "PG", "BaSTI", "BaSTI_nosep"}
HighModels   == {"", "Fontaine2001", "Fontaine2001_thin", "ONe", "MESA", "BaSTI",
                 "BaSTI_nosep"}
AtmTypes     == {"H", "He"}

\* logg_func: None (the default) or a callable, which only BaSTI calls
LoggFuncsFor(middle, high) ==
    IF HasBaSTI(middle) \/ HasBaSTI(high) THEN {"None", "interpolator"} ELSE {"None"}

\* ifmr_model: the default and a relation whose call returns
TrackIFMRModels == {"Cummings18", "Catalan08"}

\* ms_model and ms_coeff: the defaults and, with no low-mass selection and
\* a relation whose call returns, a polynomial with as many coefficients as a
\* file has rows
MSSettingsFor(low, ifmr_model) ==
    {[ms_model |-> "Choi16", coeff |-> NoCoeff]}
        \cup IF low = "" /\ ifmr_model = "Catalan08"
             THEN {[ms_model |-> "manual_poly",
                    coeff    |-> Coeffs([i \in 1..MaxRows |-> Dec(i, 1)])]}
             ELSE {}

\* the files of a call: empty files, or files of MaxRows rows; a MESA file is
\* as long as the others, too short for its decimation, or four times as long
ContentsFor(high) ==
    {[len |-> 0, mesa_len |-> 0, varied |-> FALSE]}
        \cup {[len |-> MaxRows, mesa_len |-> m, varied |-> FALSE] :
                  m \in IF high = "MESA" THEN {MaxRows, 4 * MaxRows} ELSE {0}}

NoContent == [len |-> 0, mesa_len |-> 0, varied |-> FALSE]

\* load_model followed stage by stage reads these files too, with a relation
\* whose call returns: files of MaxTrack rows that differ from row to row and
\* from mass to mass
LoadContentsFor(high, ifmr_model) ==
    ContentsFor(high)
        \cup IF ifmr_model = "Catalan08"
             THEN {[len |-> MaxTrack, mesa_len |-> 0, varied |-> TRUE]}
             ELSE {}

\* interp_atm: colour expressions of two bands, with Mbol, without '-', with
\* an empty side, with three operands, with names that are no band
AtmColors == {"bp-rp", "G-Mbol", "G-S36", "G-Ks", "Mbol-G", "G-Mbolx", "bp-rp-Mbol",
              "G-x", "x-G", "u-g", "G-K", "G-", "-G", "G", "bprp", "-Mbol",
              "G-bp-rp", "G-logg-rp", "G--rp", "G-3"}

\* atm_type: the two of the tables, and another string
AtmTypesAny == {"H", "He", "DA"}

\* logteff_logg_grid[0]: 3.0, the default 3.5, and 4.0
LogteffMins == {<<3, 1>>, <<7, 2>>, <<4, 1>>}

\* the tables Table_DA and Table_DB: one or two rows per logg below 10**3.5 K
AtmContents == {[per_logg |-> table_95_rows + 1, step |-> 250],
                [per_logg |-> table_95_rows + 2, step |-> 250]}

\* load_model: tables of three rows per logg, of 3000 K, 6500 K and 10000 K
LoadAtmContent == [per_logg |-> 3, step |-> 3500]

\* the cooling-rate computation: the colours of a track start at 0 and go on
\* by these steps, and the cooling ages are these numbers
ColorSteps == {Dec(-1, 1), Dec(0, 1), Dec(2, 1)}
AgeValues  == {Dec(0, 1), Dec(1, 1), Dec(2, 1), Dec(3, 1)}

RECURSIVE Cumulated(_, _)
Cumulated(steps, n) ==
    IF n = 0 THEN <<0, 1>> ELSE RatAdd(Cumulated(steps, n - 1), steps[n])

\* the tracks of n points: a colour and a cooling age for every point
PointSequences(n) ==
    {[colors   |-> [i \in 1..n |-> FNum(Cumulated(steps, i - 1))],
      age_cool |-> [i \in 1..n |-> FNum(ages[i])]] :
        steps \in SeqsOf(ColorSteps, IF n > 0 THEN n - 1 ELSE 0),
        ages \in SeqsOf(AgeValues, n)}

\* the interpolation builders: a row (x, y, z) of the three arrays
XYZ(x, y, z) == [x |-> x, y |-> y, z |-> z]

\* three rows that span the plane inside of the default HR_grid, rows with a
\* nan in x, in y and in z, a row whose sum is nan without a nan in it, a row
\* on the side xmax of the default HR_grid
XYZRows ==
    {XYZ(FNum(Dec(5, 10)), FNum(Dec(9, 1)), FNum(Dec(1, 1))),
     XYZ(FNum(Dec(1, 1)), FNum(Dec(95, 10)), FNum(Dec(2, 1))),
     XYZ(FNum(Dec(5, 10)), FNum(Dec(10, 1)), FNum(Dec(3, 1))),
     XYZ(FNan, FNum(Dec(9, 1)), FNum(Dec(1, 1))),
     XYZ(FNum(Dec(0, 1)), FNan, FNum(Dec(1, 1))),
     XYZ(FNum(Dec(1, 1)), FNum(Dec(10, 1)), FNan),
     XYZ(FInf, FNum(Dec(9, 1)), FNegInf),
     XYZ(FNum(Dec(15, 10)), FNum(Dec(9, 1)), FNum(Dec(1, 1)))}

\* HR_grid: the default, and a rectangle with the row (1, 9.5) on its side
\* ymin, the row (0.5, 10) on its sides xmin and ymax, and the rows (0.5, 9)
\* and (1.5, 9) outside of it
InterpGrids == {HR_grid,
                [xmin |-> Dec(5, 10), xmax |-> Dec(3, 1), ymin |-> Dec(95, 10),
                 ymax |-> Dec(10, 1)]}

InterpTypes == {"linear", "cubic"}

\* load_model: the bands its docstring names for HR_bands, lines 1235-1243
DocBands == {"G", "bp", "rp", "u", "g", "r", "i", "z", "U", "B", "V", "R", "I", "J",
             "H", "K"}

\* HR_bands: the default, and every documented band as the magnitude and on
\* each side of the colour
HRBands ==
    {<<"bp-rp", "G">>}
        \cup {<<"bp-rp", b>> : b \in DocBands}
        \cup {<<c, "G">> : c \in {"bp-G", "rp-G", "u-G", "g-G", "r-G", "i-G", "z-G",
                                  "U-G", "B-G", "V-G", "R-G", "I-G", "J-G", "H-G",
                                  "K-G", "G-bp", "G-rp", "G-u", "G-g", "G-r", "G-i",
                                  "G-z", "G-U", "G-B", "G-V", "G-R", "G-I", "G-J",
                                  "G-H", "G-K"}}

\* load_model: names of the list, aliases, and a name that is neither
LoadLowModels    == {"", "f", "Fontaine2001", "Fontaine2003"}
LoadMiddleModels == {"", "Fontaine2001", "c", "BaSTI", "Fontaine2003"}
LoadHighModels   == {"", "o", "MESA", "Fontaine2003"}

NoArgs == [m_WD |-> Scalar0d(<<0, 1>>), model |-> "", fill_value |-> NoneFill,
           mass |-> NoMass, ms_model |-> "", coeff |-> NoCoeff, interpolator |-> "None",
           low |-> "", middle |-> "", high |-> "", atm_type |-> "",
           for_comparison |-> FALSE, logg_func |-> "None", content |-> NoContent,
           color |-> "", HR_bands |-> <<"", "">>, logteff_min |-> <<0, 1>>,
           atm_content |-> [per_logg |-> 0, step |-> 0], age_cool |-> <<>>, colors |-> <<>>,
           xyz |-> <<>>, interp_type |-> "", grid |-> HR_grid]
NoOut  == Raise("none", <<>>)

-----------------------------------------------------------------------------
(* The state machine *)

Init ==
    /\ np_legacy_index \in BOOLEAN
    /\ op = "idle"
    /\ args = NoArgs
    /\ out = NoOut

CallIFMR ==
    /\ op = "idle"
    /\ \E m_WD \in ArraysOf(Masses), model \in IFMRModels \cup {"Bogus"},
          fill_value \in FillValues :
         \E mass \in MassesFor(model) :
            /\ args' = [NoArgs EXCEPT !.m_WD = m_WD, !.model = model,
                                      !.fill_value = fill_value, !.mass = mass]
            /\ out' = IFMR(m_WD, model, fill_value, mass, np_legacy_index)
    /\ op' = "IFMR"
    /\ UNCHANGED np_legacy_index

CallMS_age ==
    /\ op = "idle"
    /\ \E m_WD \in MSArraysOf(MSMasses), ms_model \in MSModels \cup {"Bogus"},
          model \in MSIFMRModels, fill_value \in MSFillValues :
         \E coeff \in CoeffsFor(ms_model), interpolator \in InterpolatorsFor(ms_model) :
            /\ args' = [NoArgs EXCEPT !.m_WD = m_WD, !.model = model,
                                      !.fill_value = fill_value,
                                      !.ms_model = ms_model, !.coeff = coeff,
                                      !.interpolator = interpolator]
            /\ out' = MS_age(m_WD, ms_model, coeff, interpolator, model, fill_value,
                             NoMass, np_legacy_index)
    /\ op' = "MS_age"
    /\ UNCHANGED np_legacy_index

Callread_cooling_tracks ==
    /\ op = "idle"
    /\ \E low \in LowModels, middle \in MiddleModels, high \in HighModels,
          atm_type \in AtmTypes, for_comparison \in BOOLEAN,
          ifmr_model \in TrackIFMRModels :
         \E content \in ContentsFor(high), logg_func \in LoggFuncsFor(middle, high),
            ms \in MSSettingsFor(low, ifmr_model) :
            LET a == [NoArgs EXCEPT !.low = low, !.middle = middle, !.high = high,
                                    !.atm_type = atm_type,
                                    !.for_comparison = for_comparison,
                                    !.logg_func = logg_func, !.content = content,
                                    !.ms_model = ms.ms_model, !.coeff = ms.coeff,
                                    !.model = ifmr_model,
                                    !.fill_value = NumFill(Dec(0, 1))]
            IN  /\ args' = a
                /\ out' = read_cooling_tracks(a, np_legacy_index)
    /\ op' = "read_cooling_tracks"
    /\ UNCHANGED np_legacy_index

Callinterp_atm ==
    /\ op = "idle"
    /\ \E atm_type \in AtmTypesAny, color \in AtmColors, logteff_min \in LogteffMins,
          content \in AtmContents :
         /\ args' = [NoArgs EXCEPT !.atm_type = atm_type, !.color = color,
                                   !.logteff_min = logteff_min,
                                   !.atm_content = content]
         /\ out' = AtmEnd(interp_atm(atm_type, Str(color), logteff_min, content))
    /\ op' = "interp_atm"
    /\ UNCHANGED np_legacy_index

\* load_model with the default logteff_logg_grid and HR_grid: every selection
\* with the default HR_bands, and every HR_bands with one selection
Callload_model ==
    /\ op = "idle"
    /\ \E low \in LoadLowModels, middle \in LoadMiddleModels, high \in LoadHighModels,
          atm_type \in AtmTypesAny, for_comparison \in BOOLEAN,
          ifmr_model \in TrackIFMRModels, HR_bands \in HRBands :
         \E content \in ContentsFor(HighAlias(high)) :
            LET a == [NoArgs EXCEPT !.low = low, !.middle = middle, !.high = high,
                                    !.atm_type = atm_type,
                                    !.for_comparison = for_comparison,
                                    !.content = content,
                                    !.ms_model = "Choi16", !.model = ifmr_model,
                                    !.fill_value = NumFill(Dec(0, 1)),
                                    !.HR_bands = HR_bands,
                                    !.logteff_min = <<7, 2>>,
                                    !.atm_content = LoadAtmContent]
            IN  /\ HR_bands # <<"bp-rp", "G">> =>
                       (/\ low = "Fontaine2001" /\ middle = "" /\ high = ""
                        /\ atm_type = "H" /\ ~for_comparison)
                /\ args' = a
                /\ out' = load_model(a, np_legacy_index)
    /\ op' = "load_model"
    /\ UNCHANGED np_legacy_index

Return ==
    /\ op # "idle"
    /\ op' = "idle"
    /\ args' = NoArgs
    /\ out' = NoOut
    /\ UNCHANGED np_legacy_index

Next ==
    \/ CallIFMR \/ CallMS_age \/ Callread_cooling_tracks
    \/ Callinterp_atm \/ Callload_model
    \/ Return

Spec == Init /\ [][Next]_vars

-----------------------------------------------------------------------------
(* load_model followed stage by stage: out holds what the stages completed
   have made, and out.bundle.stage the last of them *)

\* a variant that computes the cooling rate after the HR mappings
AfterSwapped(stage) ==
    CASE stage = "validated"  -> "atm"
      [] stage = "atm"        -> "logg_func"
      [] stage = "logg_func"  -> "tracks"
      [] stage = "tracks"     -> "photometry"
      [] stage = "photometry" -> "HR"
      [] stage = "HR"         -> "cool_rate"
      [] stage = "cool_rate"  -> "returned"

\* lines 1378-1440: the stage that follows a stage in the body of load_model
After(stage) ==
    CASE stage = "validated"  -> "atm"
      [] stage = "atm"        -> "logg_func"
      [] stage = "logg_func"  -> "tracks"
      [] stage = "tracks"     -> "photometry"
      [] stage = "photometry" -> "cool_rate"
      [] stage = "cool_rate"  -> "HR"
      [] stage = "HR"         -> "returned"

\* the names after the aliases of lines 1327-1358
Named(a) ==
    [a EXCEPT !.low = LowAlias(a.low), !.middle = MiddleAlias(a.middle),
              !.high = HighAlias(a.high)]

\* load_model is at the stage after out.bundle.stage
At(stage) == op = "load_model" /\ out.exc = "none" /\ out.bundle.stage = stage

\* the stage ends with the exception e, or is completed with the bundle b
StageEnd(e, b) ==
    IF e # "none" THEN [out EXCEPT !.exc = e]
    ELSE [out EXCEPT !.bundle = [b EXCEPT !.stage = After(out.bundle.stage)]]

\* lines 1327-1376: the aliases and the validation, which stops nothing
LoadBegin ==
    /\ op = "idle"
    /\ \E low \in LoadLowModels, middle \in LoadMiddleModels, high \in LoadHighModels,
          atm_type \in AtmTypesAny, for_comparison \in BOOLEAN,
          ifmr_model \in TrackIFMRModels :
         \E content \in LoadContentsFor(HighAlias(high), ifmr_model) :
            LET a == [NoArgs EXCEPT !.low = low, !.middle = middle, !.high = high,
                                    !.atm_type = atm_type,
                                    !.for_comparison = for_comparison,
                                    !.content = content,
                                    !.ms_model = "Choi16", !.model = ifmr_model,
                                    !.fill_value = NumFill(Dec(0, 1)),
                                    !.HR_bands = <<"bp-rp", "G">>,
                                    !.logteff_min = <<7, 2>>,
                                    !.atm_content = LoadAtmContent]
            IN  /\ args' = a
                /\ out' = [NoOut EXCEPT !.bundle.printed = Printed(Named(a)),
                                        !.bundle.stage = "validated"]
    /\ op' = "load_model"
    /\ UNCHANGED np_legacy_index

\* lines 1379-1387 for the outcomes of the two calls of interp_atm
AtmStage(color_atm, BC_atm) ==
    IF color_atm.exc # "none" THEN StageEnd(color_atm.exc, out.bundle)
    ELSE StageEnd(BC_atm.exc, [out.bundle EXCEPT !.atm = <<color_atm.atm, BC_atm.atm>>])

\* lines 1379-1387: the two mappings of the atmosphere grid
StageAtm ==
    /\ At("validated")
    /\ out' = AtmStage(interp_atm(args.atm_type, Str(args.HR_bands[1]),
                                  args.logteff_min, args.atm_content),
                       interp_atm(args.atm_type, Str(args.HR_bands[2]) \o Str("-Mbol"),
                                  args.logteff_min, args.atm_content))
    /\ UNCHANGED <<np_legacy_index, op, args>>

\* lines 1389-1401 for the outcome lf of building the helper
LoggStage(lf) ==
    StageEnd(lf, [out.bundle EXCEPT !.logg_func = "interpolator"])

\* lines 1389-1401: the Fontaine2001 tracks and the helper (logteff, mass) ->
\* logg for a BaSTI selection, logg_func = None otherwise
StageLoggFunc ==
    /\ At("atm")
    /\ out' = IF HasBaSTI(Named(args).middle) \/ HasBaSTI(Named(args).high)
              THEN LoggStage(FontaineLoggFunc(
                       read_cooling_tracks(FontaineArgs(Named(args)), np_legacy_index)))
              ELSE StageEnd("none", [out.bundle EXCEPT !.logg_func = "None"])
    /\ UNCHANGED <<np_legacy_index, op, args>>

\* lines 1403-1410 for the outcome of read_cooling_tracks
TracksStage(tracks) ==
    StageEnd(tracks.exc, [out.bundle EXCEPT !.rows = tracks.rows])

\* lines 1403-1410: the cooling tracks, read with the logg_func made
StageTracks ==
    /\ At("logg_func")
    /\ out' = TracksStage(read_cooling_tracks(
                              [Named(args) EXCEPT !.logg_func = out.bundle.logg_func],
                              np_legacy_index))
    /\ UNCHANGED <<np_legacy_index, op, args>>

\* lines 1412-1414: Mag and color of every track point, from the two
\* mappings of the atmosphere grid
StagePhotometry ==
    /\ At("tracks")
    /\ out' = StageEnd("none",
                       [out.bundle EXCEPT !.points =
                           AsArray([i \in DOMAIN out.bundle.rows |->
                                       Photometry(out.bundle.rows[i], out.bundle.atm[1],
                                                  out.bundle.atm[2])])])
    /\ UNCHANGED <<np_legacy_index, op, args>>

\* lines 1416-1419: the array 'cool_rate^-1' of the track points
StageRate ==
    /\ At("photometry")
    /\ out' = StageEnd("none",
                       [out.bundle EXCEPT !.rate_inv =
                           AsArray(rate_inv(
                               [i \in DOMAIN out.bundle.points |->
                                   out.bundle.points[i].age_cool],
                               [i \in DOMAIN out.bundle.points |->
                                   out.bundle.points[i].color]))])
    /\ UNCHANGED <<np_legacy_index, op, args>>

\* lines 1422-1436: the seven mappings of the HR diagram
StageHR ==
    /\ At("cool_rate")
    /\ out' = StageEnd(HRMappings(out.bundle.points, out.bundle.rate_inv), out.bundle)
    /\ UNCHANGED <<np_legacy_index, op, args>>

\* lines 1438-1476: the two mappings of (mass, cooling age), and the return
StageAgeCool ==
    /\ At("HR")
    /\ out' = StageEnd(AgeCoolMappings(out.bundle.points), out.bundle)
    /\ UNCHANGED <<np_legacy_index, op, args>>

NextLoad ==
    \/ LoadBegin \/ StageAtm \/ StageLoggFunc \/ StageTracks \/ StagePhotometry
    \/ StageRate \/ StageHR \/ StageAgeCool \/ Return

SpecLoad == Init /\ [][NextLoad]_vars

\* The cooling-rate computation of load_model, lines 1416-1419, on its own:
\* the arrays age_cool and color of the retained track points are the input
InitRate ==
    /\ np_legacy_index \in BOOLEAN
    /\ op = "idle"
    /\ \E n \in 0..MaxPoints : \E track \in PointSequences(n) :
          args = [NoArgs EXCEPT !.age_cool = track.age_cool, !.colors = track.colors]
    /\ out = NoOut

CoolRate ==
    /\ op = "idle"
    /\ op' = "cool_rate"
    /\ out' = LoadEnd("none", <<>>, "cool_rate", <<>>,
                      AsArray(rate_inv(args.age_cool, args.colors)))
    /\ UNCHANGED <<np_legacy_index, args>>

SpecRate == InitRate /\ [][CoolRate]_vars

\* The interpolation builders on their own: the arrays x, y, z, the grid and
\* interp_type are the input
InitInterp ==
    /\ np_legacy_index \in BOOLEAN
    /\ op = "idle"
    /\ \E n \in 0..MaxXY : \E rows \in SeqsOf(XYZRows, n) :
          \E grid \in InterpGrids, interp_type \in InterpTypes :
              args = [NoArgs EXCEPT !.xyz = rows, !.grid = grid,
                                    !.interp_type = interp_type]
    /\ out = NoOut

\* the outcome r of an interpolation builder as the outcome of a call
InterpEnd(r) == [Raise(r.exc, <<>>) EXCEPT !.interp = r.interp]

Callinterp_xy_z ==
    /\ op = "idle"
    /\ op' = "interp_xy_z"
    /\ out' = InterpEnd(interp_xy_z(args.xyz, args.interp_type))
    /\ UNCHANGED <<np_legacy_index, args>>

Callinterp_xy_z_func ==
    /\ op = "idle"
    /\ op' = "interp_xy_z_func"
    /\ out' = InterpEnd(interp_xy_z_funcRows(args.xyz, args.interp_type))
    /\ UNCHANGED <<np_legacy_index, args>>

Callinterp_HR_to_para ==
    /\ op = "idle"
    /\ op' = "interp_HR_to_para"
    /\ out' = InterpEnd(interp_HR_to_paraRows(args.xyz, args.grid, args.interp_type))
    /\ UNCHANGED <<np_legacy_index, args>>

NextInterp == Callinterp_xy_z \/ Callinterp_xy_z_func \/ Callinterp_HR_to_para

SpecInterp == InitInterp /\ [][NextInterp]_vars

-----------------------------------------------------------------------------
(* Properties of IFMR *)

\* the call IFMR(m_WD, model, fill_value, mass) has returned
IFMRReturned == op = "IFMR" /\ out.exc = "none"

\* the elements of m_WD in row-major order
InputData == args.m_WD.data

\* m_MS as the floor of line 291 found it
BeforeFloor == Unfloored(args.m_WD, args.model, args.fill_value, args.mass).value

\* the larger of two numbers
RatMax(a, b) == IF RatLt(a, b) THEN b ELSE a

\* fill_value is a finite number or a list of two numbers
ConstantPolicy(fill_value) ==
    \/ fill_value.kind = "num"
    \/ fill_value.kind = "list" /\ Len(fill_value.items) = 2

\* mass is what 'manual' needs: initial and final masses of one length
MassGiven == args.model = "manual" => Len(args.mass) = 2 /\ Len(args.mass[1]) = Len(args.mass[2])

ConstantFillOutside ==
    (/\ np_legacy_index
     /\ op = "IFMR"
     /\ args.model \in IFMRModels \ {"manual"}
     /\ ConstantPolicy(args.fill_value))
    => /\ out.exc = "none"
       /\ LET d    == FittedDomain(args.model, args.mass)
              fv   == FillValueCheck(args.fill_value)
              free == Relation(InputData, args.model, StrFill("extrapolate"), fv,
                               args.mass)
          IN  \A i \in DOMAIN InputData :
                  out.value[i] =
                      RatMax(InputData[i],
                             IF RatLt(InputData[i], d.lo) THEN fv.low
                             ELSE IF RatGt(InputData[i], d.hi) THEN fv.high
                             ELSE free.value[i])

\* C4: with fill_value 'extrapolate' IFMR returns for every supported
\* relation, each element being the relation's own line extended past the
\* domain, or m_WD where that is larger.
ExtrapolateCompletes ==
    (/\ np_legacy_index
     /\ op = "IFMR"
     /\ args.model \in IFMRModels
     /\ MassGiven
     /\ IsExtrapolate(args.fill_value))
    => /\ out.exc = "none"
       /\ LET free == Relation(InputData, args.model, args.fill_value,
                               FillValueCheck(NumFill(<<0, 1>>)), args.mass)
          IN  \A i \in DOMAIN InputData :
                  out.value[i] = RatMax(InputData[i], free.value[i])

\* C5: for every supported relation, 'manual' too, and every fill policy, IFMR
\* returns; it warns when an element of m_WD is outside the fitted domain and
\* does not warn when none is.
DomainWarned ==
    (/\ np_legacy_index
     /\ op = "IFMR"
     /\ args.model \in IFMRModels
     /\ MassGiven
     /\ ConstantPolicy(args.fill_value) \/ IsExtrapolate(args.fill_value))
    => LET d == FittedDomain(args.model, args.mass)
       IN  /\ out.exc = "none"
           /\ out.warnings # <<>>
                <=> \E i \in DOMAIN InputData :
                        RatLt(InputData[i], d.lo) \/ RatGt(InputData[i], d.hi)

\* C6, as the specification words it: the array IFMR returns has the shape
\* of m_WD, a scalar for a scalar and n x m for n x m.
SameShape == IFMRReturned => out.shape = args.m_WD.shape

\* what IFMR returns for element i of m_WD passed alone
ElementAlone(i) ==
    IFMR(Array1d(<<InputData[i]>>), args.model, args.fill_value, args.mass,
         np_legacy_index)

\* C6, amended: the array IFMR returns is 1-D and has as many elements as
\* m_WD, whatever the shape of m_WD; element i is what IFMR returns for
\* element i of m_WD (in row-major order) passed alone.
SameSize ==
    IFMRReturned =>
        /\ out.shape = <<Len(InputData)>>
        /\ Len(out.value) = Len(InputData)
        /\ \A i \in DOMAIN InputData :
              /\ ElementAlone(i).exc = "none"
              /\ out.value[i] = ElementAlone(i).value[1]

\* IFMR has returned for a 2-D m_WD of two different elements, the floor
\* having raised one of them
SameSizeOf2D ==
    /\ IFMRReturned
    /\ args.m_WD.shape = <<2, 1>>
    /\ out.shape = <<2>>
    /\ out.value[1] # out.value[2]
    /\ \E i \in DOMAIN out.value : RatLt(BeforeFloor[i], out.value[i])

\* a fill_value that is no number, not 'extrapolate' and no list of two
Malformed(fill_value) ==
    \/ fill_value.kind = "none"
    \/ fill_value.kind = "str" /\ ~IsExtrapolate(fill_value)
    \/ fill_value.kind = "list" /\ Len(fill_value.items) # 2

\* C7: IFMR raises ValueError whenever the relation name is not a supported
\* one, fill_value is malformed, or the two arrays of 'manual' differ in
\* length.
ConfigurationError ==
    (/\ op = "IFMR"
     /\ \/ args.model \notin IFMRModels
        \/ Malformed(args.fill_value)
        \/ /\ args.model = "manual"
           /\ Len(args.mass) = 2
           /\ Len(args.mass[1]) # Len(args.mass[2]))
    => out.exc = "ValueError"

\* C8: with a finite number as fill_value, 'Cummings18' returns at each of
\* its seven anchors, the two ends included, the tabulated progenitor mass.
Cummings18Anchors ==
    (/\ np_legacy_index
     /\ op = "IFMR"
     /\ args.model = "Cummings18"
     /\ args.fill_value.kind = "num")
    => /\ out.exc = "none"
       /\ \A i \in DOMAIN InputData : \A k \in DOMAIN Cummings18_m_f :
              InputData[i] = Cummings18_m_f[k] => out.value[i] = Cummings18_m_i[k]

-----------------------------------------------------------------------------
(* Properties of MS_age *)

\* the call MS_age(m_WD, 'Choi16', ...) has returned
Choi16Returned == op = "MS_age" /\ args.ms_model = "Choi16" /\ out.exc = "none"

\* mi of element i: what IFMR returned to the call made for that element
ProgenitorMass(i) ==
    IFMR(Scalar0d(BroadcastElem(args.m_WD, i)), args.model,
         ElemFill(args.fill_value, i), args.mass, np_legacy_index).value[1]

\* C9: every lifetime MS_age returns with 'Choi16' is 10**quartic(mi) where
\* mi is at most 2.11, the switch point included, and 10**cubic(mi) where mi
\* is above 2.11.
Choi16Branch ==
    Choi16Returned =>
        \A i \in DOMAIN out.age :
            LET mi == ProgenitorMass(i)
            IN  out.age[i] = IF RatGt(mi, Choi16Switch) THEN Cubic(mi) ELSE Quartic(mi)

\* MS_age has returned for two masses, the first of progenitor mass 2.11 by
\* the relation and evaluated with the quartic, which differs from the cubic
\* there, the second above 2.11
Choi16AtSwitch ==
    /\ Choi16Returned
    /\ args.fill_value = NumFill(Dec(0, 1))
    /\ Len(out.age) = 2
    /\ ProgenitorMass(1) = Choi16Switch
    /\ out.age[1] = Quartic(Choi16Switch)
    /\ out.age[1] # Cubic(Choi16Switch)
    /\ RatGt(ProgenitorMass(2), Choi16Switch)

\* |x| for a long integer
SAbs(x) == [neg |-> FALSE, mag |-> x.mag]

\* |p - q| < 0.001 for two decimal logarithms over one denominator
LogWithin(p, q) ==
    SLt(SAbs(SSub(p.num, q.num)), SMulPow(SBig(100000), p.den, 4))

\* C10: at the switch point mi = 2.11 the quartic, which MS_age returns
\* there, and the cubic differ by less than 0.001 in log10 of the lifetime.
Choi16Continuous ==
    Choi16Returned =>
        \A i \in DOMAIN out.age :
            ProgenitorMass(i) = Choi16Switch =>
                LogWithin(out.age[i], Cubic(Choi16Switch))

\* MS_age has returned for a mass below the domain of the relation, filled
\* with the switch point 2.11 itself
Choi16FilledAtSwitch ==
    /\ Choi16Returned
    /\ args.fill_value = NumFill(Choi16Switch)
    /\ \E i \in DOMAIN out.age :
          /\ RatLt(BroadcastElem(args.m_WD, i), Choi16Switch)
          /\ ProgenitorMass(i) = Choi16Switch
          /\ out.age[i] = Quartic(Choi16Switch)

\* C11: MS_age with 'manual_poly' and a coefficient sequence (c0, ..., cn),
\* n >= 1, returns one lifetime per input mass, each the polynomial
\* c0 + c1*mi + ... + cn*mi^n of that mass's progenitor mass mi.
ManualPolyPerMass ==
    (/\ np_legacy_index
     /\ op = "MS_age"
     /\ args.ms_model = "manual_poly"
     /\ args.coeff.kind = "seq"
     /\ Len(args.coeff.items) >= 2
     /\ out.exc = "none")
    => /\ out.shape = args.m_WD.shape
       /\ Len(out.age) = Len(args.m_WD.data)
       /\ \A i \in DOMAIN out.age :
              out.age[i] = Plain(Horner(ProgenitorMass(i), args.coeff.items, 1))

-----------------------------------------------------------------------------
(* Properties of read_cooling_tracks *)

\* the call read_cooling_tracks(...) has returned
TracksReturned == op = "read_cooling_tracks" /\ out.exc = "none"

\* a track of mass m is part of the output: some returned element has it
HasTrack(m) == \E i \in DOMAIN out.rows : out.rows[i].mass = m

\* read_cooling_tracks has returned for 'H', a Fontaine middle family and MESA
FontaineBelowMESA ==
    /\ TracksReturned
    /\ args.atm_type = "H"
    /\ args.middle \in {"Fontaine2001", "Fontaine2001_thin"}
    /\ args.high = "MESA"

\* C12: with atmosphere 'H', middle family Fontaine2001 or Fontaine2001_thin
\* and high family MESA, the Fontaine 1.00 Msun track is part of the output
\* if and only if for_comparison is true, and every MESA track, 1.0124 Msun
\* and above, is part of the output for both values of for_comparison.
FontaineOneSolarMass ==
    FontaineBelowMESA =>
        /\ HasTrack(Dec(100, 100)) <=> args.for_comparison
        /\ \A k \in DOMAIN MESAMassesH : HasTrack(Rat(MESAMassesH[k], 10000))
        /\ \A k \in DOMAIN FontaineMasses :
              FontaineMasses[k] > 100 => ~HasTrack(Rat(FontaineMasses[k], 100))

\* read_cooling_tracks has returned, in comparison mode, the Fontaine
\* 0.95 and 1.00 Msun tracks beside the MESA 1.0124 Msun track
FontaineOneSolarMassKept ==
    /\ FontaineBelowMESA
    /\ args.for_comparison
    /\ HasTrack(Dec(95, 100))
    /\ HasTrack(Dec(100, 100))
    /\ HasTrack(Dec(10124, 10000))

\* the middle families whose breakpoint 1 depends on for_comparison
ShiftsBreakpoint1(middle) ==
    HasRenedo2010_(middle) \/ middle = "Camisassa2017" \/ middle = "PG"

\* read_cooling_tracks has returned for 'H' with a Fontaine low family and a
\* middle family of other files, so that the Fontaine 0.50 Msun track is read
\* only as a low-mass track; the files hold rows that are kept, those of the
\* 0.40 Msun track among them
FontaineBelowOthers ==
    /\ TracksReturned
    /\ args.atm_type = "H"
    /\ args.low \in {"Fontaine2001", "Fontaine2001_thin"}
    /\ args.middle \notin {"Fontaine2001", "Fontaine2001_thin"}
    /\ HasTrack(Dec(40, 100))

\* C13 as stated: breakpoint 1 is 0.45 by default, 0.501 for a BaSTI middle
\* family, and for Renedo2010_*, Camisassa2017 and 'PG' it is 0.501 when
\* for_comparison is false and 0.45 when it is true.
Breakpoint1ShiftsWithoutComparison ==
    op = "read_cooling_tracks" =>
        LET shifted == \/ HasBaSTI(args.middle)
                       \/ ShiftsBreakpoint1(args.middle) /\ ~args.for_comparison
        IN  /\ mass_separation_1(args.middle, args.for_comparison)
                   = IF shifted THEN Dec(501, 1000) ELSE Dec(45, 100)
            /\ FontaineBelowOthers => (HasTrack(Dec(50, 100)) <=> shifted)

\* C13: breakpoint 1 is 0.45 by default, 0.501 for a BaSTI middle family, and
\* for Renedo2010_*, Camisassa2017 and 'PG' it is 0.501 when for_comparison
\* is true and 0.45 when it is false; the Fontaine 0.50 Msun track is a
\* low-mass track exactly when the breakpoint is 0.501.
Breakpoint1ShiftsInComparison ==
    op = "read_cooling_tracks" =>
        LET shifted == \/ HasBaSTI(args.middle)
                       \/ ShiftsBreakpoint1(args.middle) /\ args.for_comparison
        IN  /\ mass_separation_1(args.middle, args.for_comparison)
                   = IF shifted THEN Dec(501, 1000) ELSE Dec(45, 100)
            /\ FontaineBelowOthers => (HasTrack(Dec(50, 100)) <=> shifted)

\* read_cooling_tracks has returned, in comparison mode with a Renedo middle
\* family, the Fontaine 0.50 Msun track as a low-mass track
Breakpoint1Shifted ==
    /\ FontaineBelowOthers
    /\ args.middle = "Renedo2010_001"
    /\ args.for_comparison
    /\ HasTrack(Dec(40, 100))
    /\ HasTrack(Dec(50, 100))
    /\ HasTrack(Dec(524, 1000))

\* a family selected with an atmosphere type it has no files for
Unsupported(family, atm_type) ==
    \/ HasRenedo2010_(family) /\ atm_type = "He"
    \/ family = "Camisassa2017" /\ atm_type = "H"
    \/ family = "Fontaine2001_thin" /\ atm_type = "He"

\* C14: a family selected with an atmosphere type it does not support
\* (Renedo2010_001 or Renedo2010_0001 with 'He', Camisassa2017 with 'H',
\* Fontaine2001_thin with 'He') raises no error and contributes no row, and
\* the call ends as the call with '' in that slot does, with the same rows of
\* the other families.
UnsupportedAsEmpty ==
    (np_legacy_index /\ op = "read_cooling_tracks") =>
        /\ Unsupported(args.low, args.atm_type) =>
              out = read_cooling_tracks([args EXCEPT !.low = ""], np_legacy_index)
        /\ Unsupported(args.middle, args.atm_type) =>
              out = read_cooling_tracks([args EXCEPT !.middle = ""], np_legacy_index)
        /\ Unsupported(args.high, args.atm_type) =>
              out = read_cooling_tracks([args EXCEPT !.high = ""], np_legacy_index)

\* C2: every row read_cooling_tracks returns has a cooling age above 1e-6 Gyr
\* (1000 yr) and no nan in logg, age, age_cool, logteff or Mbol (mass is a
\* number of the mass lists); a row of exactly 1000 yr is not returned.
RowsAboveFloor ==
    TracksReturned =>
        \A i \in DOMAIN out.rows :
            LET row == out.rows[i]
            IN  /\ FGt(row.age_cool, <<1, 1000000>>)
                /\ row.age_cool # FNum(<<1, 1000000>>)
                /\ "nan" \notin {row.logg.kind, row.age.table.kind, row.age_cool.kind,
                                 row.logteff.kind, row.Mbol.kind}

\* read_cooling_tracks has returned rows of Fontaine files that hold a row of
\* exactly 1000 yr and a row with a nan age, which it left out
RowsDropped ==
    /\ TracksReturned
    /\ args.low = "Fontaine2001" /\ args.middle = "" /\ args.high = ""
    /\ args.atm_type = "H"
    /\ Len(out.rows) > 0
    /\ Len(out.rows) < Len(Tracks(args)) * args.content.len
    /\ LET text == FileTable("Fontaine", args.content)
       IN  /\ \E i \in DOMAIN text : text[i].age = FNum(<<1000, 1>>)
           /\ \E i \in DOMAIN text : text[i].age.kind = "nan"

-----------------------------------------------------------------------------
(* Properties of interp_atm *)

\* the rows of a table with the given logg, in the order of the table
OfLogg(table, logg) ==
    Compress(table, [i \in DOMAIN table |-> table[i].logg = logg])

\* C16: whatever the tables hold and whatever the minimum logteff is, the
\* rows of logg 9.5 interp_atm reads its arrays from are exactly the copies
\* of the retained rows of logg 9.0: one for each of them, none of a row of
\* another logg, each with logg 9.5, mass 1.366 and every magnitude of the
\* row it copies plus 1.108.
Logg95CopiesLogg9 ==
    (op = "interp_atm" /\ out.exc = "none") =>
        LET retained == OfLogg(Hot(AtmTable(args.atm_content), args.logteff_min),
                               Dec(9, 1))
        IN  OfLogg(out.atm.table, Dec(95, 10))
                = [i \in DOMAIN retained |-> Row95(retained[i])]

\* the supported band tokens as characters
BandTokens == {Str(Bands[k]) : k \in DOMAIN Bands}

\* the operands of (magnitude of band x) - (array y)
Difference(x, y) == <<[name |-> x \o Str("_Mag"), sign |-> 1], [name |-> y, sign |-> -1]>>

\* C17: interp_atm uses (magnitude of X) - Mbol for 'X-Mbol' and (magnitude
\* of X) - (magnitude of Y) for 'X-Y' with X and Y supported bands; for any
\* expression with a token between the '-' that is no supported band, or
\* with no '-' (Mbol on the left too), it fails and builds no interpolator.
ColorExpressionResolved ==
    (op = "interp_atm" /\ args.atm_type \in {"H", "He"}) =>
        LET tokens == Split(Str(args.color), "-")
        IN  IF Len(tokens) = 2 /\ tokens[1] \in BandTokens /\ tokens[2] = Str("Mbol")
            THEN /\ out.exc = "none"
                 /\ out.atm.operands = Difference(tokens[1], Str("Mbol"))
            ELSE IF Len(tokens) = 2 /\ tokens[1] \in BandTokens
                    /\ tokens[2] \in BandTokens
            THEN /\ out.exc = "none"
                 /\ out.atm.operands
                        = Difference(tokens[1], tokens[2] \o Str("_Mag"))
            ELSE (Len(tokens) = 1 \/ \E i \in DOMAIN tokens : tokens[i] \notin BandTokens) =>
                    /\ out.exc # "none"
                    /\ out.atm.points = <<>>

-----------------------------------------------------------------------------
(* Properties of load_model *)

\* C15: load_model given an atmosphere type that is not 'H' or 'He', with
\* every family name in the whitelist, reports the atmosphere type and does
\* not abort: it returns a Model Bundle instead of ending with an exception.
InvalidAtmTypeReturns ==
    (/\ op = "load_model"
     /\ args.atm_type \notin {"H", "He"}
     /\ {LowAlias(args.low), MiddleAlias(args.middle), HighAlias(args.high)}
            \subseteq model_names) =>
        /\ out.bundle.printed = <<"please enter either 'H' or 'He' for atm_type.">>
        /\ out.exc = "none"

\* C18: every band the documentation of load_model lists for HR_bands (G,
\* bp, rp, u, g, r, i, z, U, B, V, R, I, J, H, K) is accepted as the
\* magnitude band and as either side of the colour: both calls of interp_atm
\* resolve it to a magnitude column and end without an error, so load_model
\* gets past them.
DocumentedBandsAccepted ==
    (op = "load_model" /\ args.atm_type \in {"H", "He"}) =>
        /\ out.bundle.stage # "validated"
        /\ out.exc \notin {"NameError", "SyntaxError"}

\* the colours are uniformly spaced, by a step that is not 0
UniformColors(color) ==
    /\ color[2] # color[1]
    /\ \A i \in 2..(Len(color) - 1) :
          FSub(color[i + 1], color[i]) = FSub(color[2], color[1])

\* the slope of the line through the first two points
Slope(age_cool, color) ==
    FDiv(FSub(age_cool[2], age_cool[1]), FSub(color[2], color[1]))

\* the cooling age is a linear function of the colour
LinearAge(age_cool, color) ==
    \A i \in DOMAIN color :
        FSub(age_cool[i], age_cool[1])
            = FMul(Slope(age_cool, color), FSub(color[i], color[1]))

\* C19: for a track whose colours are uniformly spaced and whose cooling age
\* is a linear function of the colour with slope s, every interior element
\* of 'cool_rate^-1' is exactly s and the first and the last element are 1.
LinearSlopeRecovered ==
    (/\ op = "cool_rate"
     /\ Len(args.colors) >= 3
     /\ UniformColors(args.colors)
     /\ LinearAge(args.age_cool, args.colors)) =>
        LET rate == out.bundle.rate_inv
        IN  /\ rate[1] = FNum(<<1, 1>>)
            /\ rate[Len(rate)] = FNum(<<1, 1>>)
            /\ \A i \in 2..(Len(rate) - 1) :
                  rate[i] = Slope(args.age_cool, args.colors)

\* the rates of a track of four points on a line of slope 1/2 have been
\* computed
LinearTrackRated ==
    /\ op = "cool_rate"
    /\ Len(args.colors) = 4
    /\ UniformColors(args.colors)
    /\ LinearAge(args.age_cool, args.colors)
    /\ Slope(args.age_cool, args.colors) = FNum(<<1, 2>>)
    /\ out.bundle.rate_inv[2] = FNum(<<1, 2>>)
    /\ out.bundle.rate_inv[3] = FNum(<<1, 2>>)

\* C20: for every number n >= 0 of retained track points, n = 0 and n = 1
\* too, the array 'cool_rate^-1' load_model builds has exactly n elements,
\* one for each point of mass_array, age_cool, color and Mag.
RatePerTrackPoint ==
    (op = "load_model" /\ out.bundle.stage \in {"cool_rate", "HR", "returned"}) =>
        Len(out.bundle.rate_inv) = Len(out.bundle.points)

-----------------------------------------------------------------------------
(* Properties of the interpolation builders *)

\* no element of the row is nan
NoNan(row) == "nan" \notin {row.x.kind, row.y.kind, row.z.kind}

\* C21: in interp_xy_z and interp_xy_z_func the rows the interpolator is
\* built on are exactly the input rows in which none of x, y, z is nan, in
\* input order: a row with a nan is left out and every other row is kept.
NoNanRowsSelected ==
    (op \in {"interp_xy_z", "interp_xy_z_func"}) =>
        /\ out.interp.selected = [i \in DOMAIN args.xyz |-> NoNan(args.xyz[i])]
        /\ out.interp.func.built =>
              out.interp.func.points
                  = Compress(args.xyz, [i \in DOMAIN args.xyz |-> NoNan(args.xyz[i])])

\* the point (x, y) of the row is finite and strictly inside of the rectangle
StrictlyInside(row, grid) ==
    /\ row.x.kind = "num" /\ row.y.kind = "num"
    /\ RatLt(grid.xmin, row.x.v) /\ RatLt(row.x.v, grid.xmax)
    /\ RatLt(grid.ymin, row.y.v) /\ RatLt(row.y.v, grid.ymax)

\* C22: in interp_HR_to_para a row is used for the grid and for the mapping
\* if and only if none of color, Mag, WD_para is nan and xmin < color < xmax
\* and ymin < Mag < ymax for the HR_grid given: rows outside of the
\* rectangle and rows on its boundary are left out.
RectangleRowsSelected ==
    (op = "interp_HR_to_para") =>
        /\ DOMAIN out.interp.selected = DOMAIN args.xyz
        /\ \A i \in DOMAIN args.xyz :
              out.interp.selected[i]
                  <=> (NoNan(args.xyz[i]) /\ StrictlyInside(args.xyz[i], args.grid))
        /\ out.exc = "none" =>
              /\ out.interp.grid.points = Compress(args.xyz, out.interp.selected)
              /\ out.interp.func.points = Compress(args.xyz, out.interp.selected)

\* interp_HR_to_para has returned a grid and a mapping built on three rows,
\* without the fourth row, which lies on the side xmax of the rectangle
BoundaryRowLeftOut ==
    /\ op = "interp_HR_to_para"
    /\ out.exc = "none"
    /\ Len(args.xyz) = 4
    /\ Len(out.interp.func.points) = 3
    /\ \E i \in DOMAIN args.xyz :
          /\ ~out.interp.selected[i]
          /\ NoNan(args.xyz[i])
          /\ args.xyz[i].x = FNum(args.grid.xmax)
          /\ RatLt(args.grid.ymin, args.xyz[i].y.v)
          /\ RatLt(args.xyz[i].y.v, args.grid.ymax)

-----------------------------------------------------------------------------
(* Properties of the ages and of the mass slots of read_cooling_tracks *)

\* the families whose total age is the cooling age plus MS_age
MSFamilies == {"Fontaine", "Montreal", "Renedo", "BaSTI", "ONe"}

\* the returned rows of the track: the MS part of the total age is the one
\* value ms_age (none for a family that reads the total age from its table),
\* and the table part is the cooling age
TrackAges(track, ms_age) ==
    \A i \in DOMAIN out.rows :
        out.rows[i].mass = track.mass =>
            IF track.family \in MSFamilies
            THEN /\ out.rows[i].age.table = out.rows[i].age_cool
                 /\ out.rows[i].age.ms = <<LifeGyr(ms_age.age[1])>>
            ELSE out.rows[i].age.ms = <<>>

\* C25: in every row read_cooling_tracks returns for a Fontaine, Montreal,
\* Renedo, BaSTI or ONe track, the total age minus the cooling age is
\* MS_age(track mass) with the caller's settings, one constant for the rows
\* of a track; a MESA or Camisassa row has no MS_age part.
TotalAgeAddsMS_age ==
    (op = "read_cooling_tracks" /\ out.exc = "none") =>
        \A k \in DOMAIN Tracks(args) :
            TrackAges(Tracks(args)[k],
                      TrackMS_age(Tracks(args)[k].mass, args, np_legacy_index))

\* C26: MS_age derives the progenitor mass before it looks at the MS model:
\* whenever IFMR raises for the arguments of the call, MS_age raises that
\* exception, with an invalid MS model name too; and with an unknown MS model
\* name and an IFMR call that returns, MS_age raises ValueError.
IFMRBeforeMSModel ==
    op = "MS_age" =>
        LET r == IFMR(args.m_WD, args.model, args.fill_value, args.mass,
                      np_legacy_index)
        IN  /\ r.exc # "none" => out.exc = r.exc
            /\ (r.exc = "none" /\ args.ms_model \notin MSModels) =>
                    out.exc = "ValueError"

\* every tabulated track: the mass lists of lines 704-706, 770-773, 806-815,
\* 843, 879-881, 923 and 971-982
SetOf(seq) == {seq[i] : i \in DOMAIN seq}
GridOf(family, masses, unit) == {Track(family, Rat(m, unit)) : m \in SetOf(masses)}
Renedo001Grid == GridOf("Renedo", Renedo001Masses, 1000)
Renedo0001Grid == GridOf("Renedo", Renedo0001Masses, 1000)
MESAGridHe == GridOf("MESA", MESAMassesHe, 10000)
MESAGridH == GridOf("MESA", MESAMassesH, 10000)
GridTracks ==
    GridOf("Fontaine", FontaineMasses, 100) \cup GridOf("Montreal", MontrealMasses, 10)
        \cup Renedo001Grid \cup Renedo0001Grid
        \cup GridOf("Camisassa", CamisassaMasses, 100)
        \cup GridOf("BaSTI", BaSTIMasses, 100) \cup GridOf("ONe", ONeMasses, 100)
        \cup MESAGridHe \cup MESAGridH

\* the slots (low, middle, high) whose selection makes the call read the
\* track: the tests of lines 707-726, 774-779, 804-816, 842-844, 883-896,
\* 922 and 969-982 with the name of the slot they look at
If(slot, test) == IF test THEN {slot} ELSE {}
FontaineNames == {"Fontaine2001", "Fontaine2001_thin"}
SlotsOf(track, s1, s2, a) ==
    LET m == track.mass
    IN  CASE track.family = "Fontaine" ->
               If("low", RatLt(m, s1) /\ a.atm_type = "H" /\ a.low \in FontaineNames)
                 \cup If("middle", RatGt(m, s1) /\ RatLt(m, s2) /\ a.atm_type = "H"
                                       /\ a.middle \in FontaineNames)
                 \cup If("high", RatGt(m, s2) /\ a.atm_type = "H"
                                     /\ a.high \in FontaineNames)
          [] track.family = "Montreal" ->
               If("low", RatLt(m, s1) /\ a.low = "Fontaine2001" /\ a.atm_type = "He")
                 \cup If("middle", RatGt(m, s1) /\ RatLt(m, s2)
                                       /\ a.middle = "Fontaine2001" /\ a.atm_type = "He")
                 \cup If("high", RatGt(m, s2) /\ a.high = "Fontaine2001"
                                     /\ a.atm_type = "He")
          [] track.family = "Renedo" ->
               If("middle", /\ a.atm_type = "H"
                            /\ \/ /\ a.middle = "Renedo2010_001"
                                  /\ track \in Renedo001Grid
                               \/ /\ a.middle = "Renedo2010_0001"
                                  /\ track \in Renedo0001Grid)
          [] track.family = "Camisassa" ->
               If("middle", a.middle = "Camisassa2017" /\ a.atm_type = "He"
                               /\ RatLt(m, s2))
          [] track.family = "BaSTI" ->
               If("middle", RatLt(m, s2) /\ HasBaSTI(a.middle))
                 \cup If("high", RatGt(m, s2) /\ HasBaSTI(a.high))
          [] track.family = "ONe" -> If("high", a.high = "ONe")
          [] track.family = "MESA" ->
               If("high", /\ a.high = "MESA"
                          /\ \/ /\ a.atm_type = "He"
                                /\ track \in MESAGridHe
                             \/ /\ a.atm_type = "H"
                                /\ track \in MESAGridH)

\* the masses of the tracks read that the call reads through a slot
SlotMasses(slot, s1, s2, a, tracks) ==
    {t.mass : t \in {u \in SetOf(tracks) : slot \in SlotsOf(u, s1, s2, a)}}

\* every mass of the set S is below every mass of the set T
AllBelow(S, T) == \A m \in S : \A n \in T : RatLt(m, n)

\* the claim for the breakpoints s1 and s2 of the call and the tracks it reads
SlotsPartition(s1, s2, a, tracks) ==
    /\ \A t \in GridTracks : t.mass # s1 /\ t.mass # s2
    /\ \A t \in GridTracks : Cardinality(SlotsOf(t, s1, s2, a)) <= 1
    /\ SetOf(tracks) = {t \in GridTracks : SlotsOf(t, s1, s2, a) # {}}
    /\ \A i, j \in DOMAIN tracks : tracks[i].mass = tracks[j].mass => i = j
    /\ AllBelow(SlotMasses("low", s1, s2, a, tracks),
                SlotMasses("middle", s1, s2, a, tracks))
    /\ AllBelow(SlotMasses("middle", s1, s2, a, tracks),
                SlotMasses("high", s1, s2, a, tracks))
    /\ AllBelow(SlotMasses("low", s1, s2, a, tracks),
                SlotMasses("high", s1, s2, a, tracks))

\* C29: in every call of read_cooling_tracks with selections of the list,
\* no tabulated mass equals a breakpoint, every tabulated track is claimed by
\* at most one slot, the tracks read are the claimed ones, each read once,
\* and every mass read through the low slot is below every mass read through
\* the middle slot, which is below every mass read through the high slot.
SlotsOrdered ==
    op = "read_cooling_tracks" =>
        SlotsPartition(mass_separation_1(args.middle, args.for_comparison),
                       mass_separation_2(args.high, args.for_comparison), args,
                       Tracks(args))

\* the slots the masses of the returned rows were read through
RowSlots(s1, s2, a, tracks) ==
    {slot \in {"low", "middle", "high"} :
        \E i \in DOMAIN out.rows :
            out.rows[i].mass \in SlotMasses(slot, s1, s2, a, tracks)}

\* a call that returns rows read through each of the three slots
ThreeSlotsRead ==
    /\ op = "read_cooling_tracks"
    /\ out.exc = "none"
    /\ RowSlots(mass_separation_1(args.middle, args.for_comparison),
                mass_separation_2(args.high, args.for_comparison), args,
                Tracks(args)) = {"low", "middle", "high"}

\* the rows of the file of a track, before any decimation
FileOf(track, a) == TrackTable(track.family, track.mass, a.content)

\* the decimation step of a track whose file has n rows: lines 785, 821,
\* 849-853, 902-906, 928 and 996-1003 (the Fontaine lines are all read)
StepOf(track, n) ==
    CASE track.family \in {"Fontaine", "Montreal"} -> 1
      [] track.family = "Renedo"    -> 5
      [] track.family = "Camisassa" -> IF RatGt(track.mass, Dec(95, 100)) THEN 50 ELSE 1
      [] track.family = "BaSTI"     -> IF RatGt(track.mass, Dec(105, 100)) THEN 5 ELSE 1
      [] track.family = "ONe"       -> 10
      [] track.family = "MESA"      -> n \div 40

\* the elements read of a file are its rows 0, N, 2N, ..., as far as the logg
\* column tells (BaSTI replaces the column)
EveryNth(read, file, N) ==
    /\ N > 0
    /\ Len(read.rows) = (Len(file) + N - 1) \div N
    /\ Len(read.rows) > 0
    /\ \A k \in DOMAIN read.rows : read.rows[k].logg = file[(k - 1) * N + 1].logg

\* the claim for one track: a MESA track, which calls nothing that can fail
\* but the decimation, is read; any track that is read holds every Nth row
Decimated(track, file, read) ==
    Len(file) > 0 =>
        /\ track.family = "MESA" => read.exc = "none"
        /\ (read.exc = "none" /\ track.family # "BaSTI") =>
               EveryNth(read, file, StepOf(track, Len(file)))

\* C30: for every track of a call of read_cooling_tracks whose file has at
\* least one row, the decimation step is a positive integer, the rows read
\* are the rows 0, N, 2N, ... of the file, at least one, and the decimation
\* raises nothing, for MESA (N = length // 40) as for the other families.
DecimationStepPositive ==
    op = "read_cooling_tracks" =>
        \A k \in DOMAIN Tracks(args) :
            Decimated(Tracks(args)[k], FileOf(Tracks(args)[k], args),
                      ReadTrack(Tracks(args)[k], args, np_legacy_index))

-----------------------------------------------------------------------------
(* Properties of the grid and the query function of one call *)

\* C28: when interp_atm, interp_HR_to_para or interp_xy_z returns, the dense
\* grid and the query function were built on the same points with the same
\* method and the same rescale setting.
GridMatchesFunction ==
    (op \in {"interp_atm", "interp_HR_to_para", "interp_xy_z"} /\ out.exc = "none") =>
        /\ out.interp.grid.built
        /\ out.interp.func.built
        /\ out.interp.grid.points = out.interp.func.points
        /\ out.interp.grid.method = out.interp.func.method
        /\ out.interp.grid.rescale = out.interp.func.rescale

-----------------------------------------------------------------------------
(* Properties of the stages of load_model *)

\* the stages in the order the specification gives them
StageOrder ==
    <<"validated", "atm", "logg_func", "tracks", "photometry", "cool_rate", "HR",
      "returned">>

Pos(stage) == CHOOSE i \in DOMAIN StageOrder : StageOrder[i] = stage

\* what the stages up to the n-th have made is in the bundle b, and nothing
\* of a later stage is
MadeUpTo(n, b, basti) ==
    /\ (n >= Pos("atm")) = (Len(b.atm) = 2)
    /\ b.logg_func = (IF n < Pos("logg_func") THEN ""
                      ELSE IF basti THEN "interpolator" ELSE "None")
    /\ n < Pos("tracks") => b.rows = <<>>
    /\ IF n < Pos("photometry") THEN b.points = <<>>
       ELSE /\ Len(b.points) = Len(b.rows)
            /\ \A i \in DOMAIN b.rows : b.points[i].mass = b.rows[i].mass
    /\ (n >= Pos("cool_rate")) = (Len(b.rate_inv) > 0)

-----------------------------------------------------------------------------
(* Properties of 'cool_rate^-1' along the tracks *)

\* point i is the first or the last point of its track
TrackEnd(points, i) ==
    \/ i = 1
    \/ i = Len(points)
    \/ points[i - 1].mass # points[i].mass
    \/ points[i + 1].mass # points[i].mass

\* C27: in load_model the first and the last point of each cooling track get
\* the sentinel 1 in 'cool_rate^-1', so that no element is computed from
\* points of two tracks: the previous, the current and the next point of
\* every other element have one mass.
RateWithinTrack ==
    (op = "load_model" /\ out.bundle.stage \in {"cool_rate", "HR", "returned"}
        /\ Len(out.bundle.points) >= 2)
    => \A i \in DOMAIN out.bundle.points :
          TrackEnd(out.bundle.points, i) => out.bundle.rate_inv[i] = FNum(<<1, 1>>)

-----------------------------------------------------------------------------
(* Properties of HR_to_mass at the track points *)

\* load_model has returned a bundle
Returned == op = "load_model" /\ out.exc = "none" /\ out.bundle.stage = "returned"

\* the track points strictly inside of the HR rectangle
Inside(points) == HRSelected(points, [j \in DOMAIN points |-> "num"])

\* no track point of another mass inside of the rectangle has the color and
\* the Mag of point i
AloneAt(points, i) ==
    \A j \in Inside(points) :
        (points[j].color = points[i].color /\ points[j].Mag = points[i].Mag)
            => points[j].mass = points[i].mass

\* HR_to_mass of the bundle returns the mass of point i at its (color, Mag)
OwnMassAt(points, data, i) ==
    AtVertex(data, points[i].color.v, points[i].Mag.v) = {points[i].mass}

====
